---- MODULE Spec2Model ----
(***************************************************************************)
(* Socialsense: relevance matching of posts to campaigns                   *)
(* (src/src/campaign_logic.py), campaign metrics / lifecycle status        *)
(* (src/src/models.py) and the alert evaluation of AlertingService         *)
(* (src/src/alerting_system.py).                                           *)
(*                                                                         *)
(* Encoding.  A Python value that may be None is a sequence of length at   *)
(* most one: <<>> is None, <<v>> is the value v.  A string is a sequence   *)
(* of one-character strings.  A point in time is an integer number of     *)
(* hours; a UTC offset is an integer number of hours.  A rate rounded to   *)
(* two decimals is the integer number of hundredths.                       *)
(***************************************************************************)
EXTENDS Integers, Sequences, FiniteSets, TLC

VARIABLES
    campaign,        \* the Campaign object
    all_posts,       \* argument of the last get_posts_for_campaign call
    relevant_posts,  \* the list that call returned
    outcome,         \* "idle", or how that call ended: "returned", "raised"
    posts_arg,       \* argument of the last update_metrics call
    now_arg,         \* current_time of the last status update; the clock
                     \* reading of the last mark_as_read call
    last_op,         \* "init", "update_metrics", "update_status" or
                     \* "process_campaigns"
    status_before,   \* campaign.status when the last call began
    repeat_call,     \* the last call repeated the update_metrics call before it
    service,         \* the AlertingService object
    alerts,          \* the list the last AlertingService call returned
    emitted,         \* per element of the list that call went through, the
                     \* alerts appended while the element was processed
    call,            \* that call: its name, its arguments, the service before it;
                     \* op "mark_as_read" once an alert of the list was marked
    analyzed,        \* the posts that call handed to analyze_sentiment, in order
    negative_post_count,  \* the tally check_sentiment_alerts reached in that call
    scenario,        \* how many calls have followed the sequence of TrendScenario
    campaign_list,   \* argument of the last process_campaigns call: per element,
                     \* "campaign" for the Campaign object, "other" for an
                     \* object that is no Campaign; <<"other">> after a
                     \* get_posts_for_campaign call on an object that is no Campaign
    processed,       \* what that call returned: "none" before any call, "list"
                     \* for campaign_list itself, "empty" for [], "raised"
    history,         \* what the tracked calls were shown and returned over the
                     \* lifetime of the service (see NoHistory)
    collaborator,    \* the classifier during the last AlertingService call:
                     \* whether it answers or raises when invoked, and whether
                     \* the call ended with its exception
    threads          \* two threads calling the trackers of the one service:
                     \* where each is in its call, and the round they are in
                     \* (see NoThreads)

\* the variables of the AlertingService
svars == <<service, alerts, emitted, call, analyzed, negative_post_count, scenario>>

\* the variables of process_campaigns
xvars == <<campaign_list, processed>>

\* the record of the lifetime of the service
hvars == <<history, collaborator, threads>>

vars == <<campaign, all_posts, relevant_posts, outcome, posts_arg, now_arg, last_op,
          status_before, repeat_call, service, alerts, emitted, call, analyzed,
          negative_post_count, scenario, campaign_list, processed, history,
          collaborator, threads>>

\* ---------------------------------------------------------------- bounds
\* times are 0..MaxTime
MaxTime == 1

\* longest list of posts handed to one call
MaxPosts == 2

\* longest list of trend entries or of campaigns handed to one call
MaxEntries == 2

\* longest list of posts handed to check_sentiment_alerts
MaxItems == 12

\* ------------------------------------------------------- optional values
None == <<>>

Some(v) == <<v>>

IsNone(x) == x = <<>>

Val(x) == x[1]

\* abs()
Abs(x) == IF x < 0 THEN -x ELSE x

\* lists of length 0..n over the set S
SeqsUpTo(S, n) == UNION {[1..k -> S] : k \in 0..n}

Times == 0..MaxTime

OptTimes == {None} \cup {Some(t) : t \in Times}

\* ---------------------------------------------------------------- strings
\* str.lower() on one character
LowerChar(ch) == IF ch = "A" THEN "a" ELSE IF ch = "B" THEN "b" ELSE ch

\* str.lower()
Lower(s) == [i \in 1..Len(s) |-> LowerChar(s[i])]

\* Python's `needle in haystack` on strings
IsSubstring(needle, haystack) ==
    \E i \in 0..(Len(haystack) - Len(needle)) :
        SubSeq(haystack, i + 1, i + Len(needle)) = needle

\* ------------------------------------------------------------- timestamps
(***************************************************************************)
(* SocialMediaPost.timestamp as the data source delivers it:               *)
(*   kind "number"   int/float epoch value `wall`; tz "range" marks a      *)
(*                   value outside what fromtimestamp accepts (nan, 1e20)  *)
(*   kind "str"      ISO-8601 text: wall-clock `wall` followed by the      *)
(*                   suffix tz ("" none, "Z", "+00:00", "+01:00");         *)
(*                   tz "??" is text that is not ISO-8601                  *)
(*   kind "datetime" datetime object, tz "" (naive) or its UTC offset      *)
(*   kind "other"    any other type (None, date, list)                     *)
(***************************************************************************)
Timestamp(k, w, z) == [kind |-> k, wall |-> w, tz |-> z]

\* datetime.fromtimestamp(x, tz=timezone.utc): raises outside its range
fromtimestamp(ts) ==
    IF ts.tz = "range"
    THEN [res |-> "raise", dt |-> ts]
    ELSE [res |-> "ok", dt |-> Timestamp("datetime", ts.wall, "+00:00")]

\* str.replace("Z", "+00:00") on the timestamp text
ReplaceZ(ts) == IF ts.tz = "Z" THEN Timestamp(ts.kind, ts.wall, "+00:00") ELSE ts

\* datetime.fromisoformat: ValueError unless the text is ISO-8601 with no
\* suffix or a numeric offset
fromisoformat(ts) ==
    IF ts.tz \in {"", "+00:00", "+01:00"}
    THEN [res |-> "ok", dt |-> Timestamp("datetime", ts.wall, ts.tz)]
    ELSE [res |-> "ValueError", dt |-> ts]

\* NormalizeTimestamp without the except clause: text that does not parse
\* aborts the call
NormalizeTimestampUncaught(ts) ==
    LET conv == IF ts.kind = "number" THEN fromtimestamp(ts)
                ELSE IF ts.kind = "str" THEN fromisoformat(ReplaceZ(ts))
                ELSE [res |-> "ok", dt |-> ts]
    IN IF conv.res = "raise" \/ conv.res = "ValueError" THEN [res |-> "raise", wall |-> 0]
       ELSE IF conv.dt.kind # "datetime" THEN [res |-> "skip", wall |-> 0]
       ELSE [res |-> "ok", wall |-> conv.dt.wall]

\* campaign_logic.py lines 51-70: the post's timestamp made a naive datetime.
\* res "ok": `wall` is the naive value compared with the campaign dates;
\* res "skip": the post is skipped (continue); res "raise": the call aborts.
\* replace(tzinfo=None) drops the offset and keeps the wall-clock fields.
NormalizeTimestamp(ts) ==
    LET conv == IF ts.kind = "number" THEN fromtimestamp(ts)
                ELSE IF ts.kind = "str" THEN fromisoformat(ReplaceZ(ts))
                ELSE [res |-> "ok", dt |-> ts]
    IN IF conv.res = "raise" THEN [res |-> "raise", wall |-> 0]
       ELSE IF conv.res = "ValueError" THEN [res |-> "skip", wall |-> 0]
       ELSE IF conv.dt.kind # "datetime" THEN [res |-> "skip", wall |-> 0]
       ELSE [res |-> "ok", wall |-> conv.dt.wall]

\* ------------------------------------------------------------------ posts
\* SocialMediaPost.__init__; cls "other" is a list element that is not a
\* SocialMediaPost
SocialMediaPost(id, account, text, ts, l, s, cc, r) ==
    [cls |-> "SocialMediaPost", post_id |-> id, account_id |-> account,
     content |-> text, timestamp |-> ts,
     likes |-> l, shares |-> s, comments_count |-> cc, reach |-> r]

NotAPost ==
    [cls |-> "other", post_id |-> "", account_id |-> "",
     content |-> None, timestamp |-> Timestamp("other", 0, ""),
     likes |-> None, shares |-> None, comments_count |-> None, reach |-> None]

\* --------------------------------------------------------------- campaign
\* Campaign.__init__: status Planning, zero metrics; cls is the class of the
\* object, as isinstance reads it
Campaign(start, end, keywords, hashtags, accounts) ==
    [cls |-> "Campaign", start_date |-> start, end_date |-> end,
     tracked_keywords |-> keywords, tracked_hashtags |-> hashtags,
     tracked_accounts |-> accounts,
     status |-> "Planning",
     total_posts |-> 0, total_likes |-> 0, total_shares |-> 0,
     total_comments |-> 0, total_reach |-> 0, avg_engagement_rate |-> 0,
     associated_post_ids |-> <<>>]

\* an object that is no Campaign
NotACampaign == [cls |-> "other"]

\* ---------------------------------------------------------------- alerting
\* alerting_system.py lines 28-33: the alert thresholds
TREND_VOLUME_THRESHOLD == 100

TREND_VELOCITY_THRESHOLD == 50

\* percentages
CAMPAIGN_ENGAGEMENT_DROP_PERCENTAGE == -20

CAMPAIGN_ENGAGEMENT_SPIKE_PERCENTAGE == 30

\* 0.6, in hundredths
NEGATIVE_SENTIMENT_THRESHOLD == 60

NEGATIVE_SENTIMENT_POST_COUNT == 10

\* the terms a trend entry can name; "" is a term that is absent or empty
TrendTerms == {"X", "Y"}

\* the campaign ids the service can be shown
CampaignIds == {"c1", "c2"}

\* AlertingService.__init__: nothing seen, no campaign observed; ai_analyzer
\* is the AIAnalyzerService when it could be imported (available), else None
AlertingService(available) ==
    [ai_analyzer |-> available,
     seen_trends |-> [t \in TrendTerms |-> None],
     previous_campaign_metrics |-> [id \in CampaignIds |-> None]]

\* Alert.__init__ as the service calls it: unread, read_at None
Alert(alert_type, sev, entity_id, entity_type) ==
    [type |-> alert_type, severity |-> sev, related_entity_id |-> entity_id,
     related_entity_type |-> entity_type, is_read |-> FALSE, read_at |-> None]

\* models.py lines 177-179: Alert.mark_as_read() when the clock reads `clock`
mark_as_read(a, clock) == [a EXCEPT !.is_read = TRUE, !.read_at = Some(clock)]

\* nothing tracked yet.  Per term: new_trend, the number of new_trend alerts
\* returned for it so far (2 stands for two or more), and first_count, the
\* count of the first entry that named it.  Per campaign id: last_active,
\* the rate of the last entry that showed it Active; idle, whether an entry
\* has shown it not Active since then; and resumed, for the last call, the
\* first entry (at) that showed it Active again after such an entry, with the
\* rate (p) that was its last_active then.
NoHistory ==
    [new_trend |-> [t \in TrendTerms |-> 0],
     first_count |-> [t \in TrendTerms |-> None],
     last_active |-> [id \in CampaignIds |-> None],
     idle |-> [id \in CampaignIds |-> FALSE],
     resumed |-> [id \in CampaignIds |-> None]]

ThreadIds == {1, 2}

\* a thread that is in no call: pc is where it is in the call ("test" before
\* the membership test of a pass of the loop, "read" before the read of the
\* stored value, "write" before the alert and the write, "done" after the
\* return), op and args are the call, i the element the loop is at, seen what
\* the pass read, out the local list alerts
IdleThread ==
    [pc |-> "idle", op |-> "none", args |-> <<>>, i |-> 1, seen |-> <<>>, out |-> <<>>]

\* no thread has called: mode is whether the callers keep exclusive access
\* for the duration of a call ("exclusive") or not ("free"), holder the
\* thread that has it (0 for none), order the threads in the order their
\* calls began, base the service when the round began, raced the lists
\* returned in the last round that ended as no sequential order ends
NoThreads ==
    [mode |-> "exclusive", holder |-> 0, order |-> <<>>,
     base |-> [ai_analyzer |-> TRUE,
               seen_trends |-> [t \in TrendTerms |-> <<>>],
               previous_campaign_metrics |-> [id \in CampaignIds |-> <<>>]],
     raced |-> <<>>,
     t |-> [th \in ThreadIds |-> IdleThread]]

\* no AlertingService call has been made
NoCall ==
    [op |-> "none", current_trends |-> <<>>, campaigns |-> <<>>,
     campaign_posts |-> <<>>, posts_map |-> [id \in CampaignIds |-> None],
     before |-> AlertingService(TRUE)]

\* --------------------------------------------------------------- matching
\* the date filter with the end of the window exclusive
InDateWindowEndExclusive(c, t) ==
    /\ ~(~IsNone(c.start_date) /\ t < Val(c.start_date))
    /\ ~(~IsNone(c.end_date) /\ t >= Val(c.end_date))

\* campaign_logic.py lines 74-77: the date filter on the naive timestamp t
InDateWindow(c, t) ==
    /\ ~(~IsNone(c.start_date) /\ t < Val(c.start_date))
    /\ ~(~IsNone(c.end_date) /\ t > Val(c.end_date))

\* post.content.lower() if post.content else ""
ContentLower(post) ==
    IF IsNone(post.content) \/ Val(post.content) = <<>> THEN <<>>
    ELSE Lower(Val(post.content))

\* for keyword in tracked_keywords: if keyword.lower() in content: break
RECURSIVE AnyKeywordIn(_, _)
AnyKeywordIn(keywords, text) ==
    IF keywords = <<>> THEN FALSE
    ELSE IF IsSubstring(Lower(Head(keywords)), text) THEN TRUE
    ELSE AnyKeywordIn(Tail(keywords), text)

\* for hashtag in tracked_hashtags: if f"#{hashtag.lower()}" in content: break
RECURSIVE AnyHashtagIn(_, _)
AnyHashtagIn(hashtags, text) ==
    IF hashtags = <<>> THEN FALSE
    ELSE IF IsSubstring(<<"#">> \o Lower(Head(hashtags)), text) THEN TRUE
    ELSE AnyHashtagIn(Tail(hashtags), text)

\* post.account_id in campaign.tracked_accounts
InList(x, list) == \E i \in DOMAIN list : list[i] = x

\* matches_criteria with a campaign that tracks nothing matching every post
MatchesCriteriaAllWhenEmpty(c, post) ==
    \/ c.tracked_accounts = <<>> /\ c.tracked_keywords = <<>> /\ c.tracked_hashtags = <<>>
    \/ c.tracked_accounts # <<>> /\ InList(post.account_id, c.tracked_accounts)
    \/ c.tracked_keywords # <<>> /\ AnyKeywordIn(c.tracked_keywords, ContentLower(post))
    \/ c.tracked_hashtags # <<>> /\ AnyHashtagIn(c.tracked_hashtags, ContentLower(post))

\* campaign_logic.py lines 80-102: matches_criteria
MatchesCriteria(c, post) ==
    LET post_content_lower == ContentLower(post)
        by_account == c.tracked_accounts # <<>> /\ InList(post.account_id, c.tracked_accounts)
        by_keyword == ~by_account /\ c.tracked_keywords # <<>>
                      /\ AnyKeywordIn(c.tracked_keywords, post_content_lower)
        by_hashtag == ~by_account /\ ~by_keyword /\ c.tracked_hashtags # <<>>
                      /\ AnyHashtagIn(c.tracked_hashtags, post_content_lower)
    IN by_account \/ by_keyword \/ by_hashtag

\* the result of a call: it raised, or it returned the list `relevant`
Returned(list) == [raised |-> FALSE, relevant |-> list]

Raised == [raised |-> TRUE, relevant |-> <<>>]

\* campaign_logic.py lines 47-105: the loop over all_posts
RECURSIVE ScanPosts(_, _)
ScanPosts(c, posts) ==
    IF posts = <<>> THEN Returned(<<>>)
    ELSE LET post == Head(posts)
             n == NormalizeTimestamp(post.timestamp)
             rest == ScanPosts(c, Tail(posts))
         IN IF n.res = "raise" THEN Raised
            ELSE IF n.res = "skip" THEN rest
            ELSE IF ~InDateWindow(c, n.wall) THEN rest
            ELSE IF ~MatchesCriteria(c, post) THEN rest
            ELSE IF rest.raised THEN Raised
            ELSE Returned(<<post>> \o rest.relevant)

IsPost(p) == p.cls = "SocialMediaPost"

\* campaign_logic.py lines 19-108: an object that is no Campaign is logged
\* and answered with [] (lines 29-31)
get_posts_for_campaign(c, posts) ==
    IF c.cls # "Campaign" THEN Returned(<<>>)
    ELSE ScanPosts(c, SelectSeq(posts, IsPost))

\* ----------------------------------------------------- inputs of matching
\* post texts: None, "", "A", "#A"
MatchContents == {None, Some(<<>>), Some(<<"A">>), Some(<<"#", "A">>)}

\* tracked_keywords: none, [""], ["b", "A"]
KeywordLists == {<<>>, << <<>> >>, << <<"b">>, <<"A">> >>}

\* tracked_hashtags: none, [""], ["b", "A"]
HashtagLists == {<<>>, << <<>> >>, << <<"b">>, <<"A">> >>}

\* tracked_accounts: none, the posting account, another account
AccountLists == {<<>>, <<"acc1">>, <<"acc2">>}

\* posts of account acc1: every text at every naive datetime, and one whose
\* timestamp is ISO-8601 text with the offset +01:00
MatchPosts ==
    {SocialMediaPost("p", "acc1", text, Timestamp("datetime", t, ""),
                     Some(0), Some(0), Some(0), None) :
        text \in MatchContents, t \in Times}
    \cup {SocialMediaPost("p", "acc1", Some(<<"A">>), Timestamp("str", 0, "+01:00"),
                          Some(0), Some(0), Some(0), None)}

MatchCampaigns ==
    {Campaign(s, e, k, h, a) :
        s \in OptTimes, e \in OptTimes,
        k \in KeywordLists, h \in HashtagLists, a \in AccountLists}

\* every representation of a timestamp, and the values that are none
TimestampPool ==
    {Timestamp("number", t, "") : t \in Times}
    \cup {Timestamp("number", 0, "range")}
    \cup {Timestamp("str", t, z) : t \in Times, z \in {"", "Z", "+00:00", "+01:00"}}
    \cup {Timestamp("str", 0, "??")}
    \cup {Timestamp("datetime", t, z) : t \in Times, z \in {"", "+00:00", "+01:00"}}
    \cup {Timestamp("other", 0, "")}

\* posts that differ in their timestamp only, and an element that is no post
TimePosts ==
    {SocialMediaPost("p", "acc1", Some(<<"A">>), ts, Some(0), Some(0), Some(0), None) :
        ts \in TimestampPool}
    \cup {NotAPost}

\* campaigns that track the posting account, over every date window
TimeCampaigns ==
    {Campaign(s, e, <<>>, <<>>, <<"acc1">>) : s \in OptTimes, e \in OptTimes}

\* ------------------------------------------------- matching as an action
\* one call get_posts_for_campaign(campaign, posts), the posts drawn from
\* `pool`.  The function writes nothing it reads, so one call per behaviour
\* covers every call.
CallGetPostsForCampaign(pool) ==
    /\ outcome = "idle"
    /\ \E posts \in SeqsUpTo(pool, MaxPosts) :
          LET r == get_posts_for_campaign(campaign, posts)
          IN /\ all_posts' = posts
             /\ relevant_posts' = r.relevant
             /\ outcome' = IF r.raised THEN "raised" ELSE "returned"
    /\ UNCHANGED <<campaign, posts_arg, now_arg, last_op, status_before, repeat_call>>
    /\ UNCHANGED svars
    /\ UNCHANGED xvars
    /\ UNCHANGED hvars

\* no call has been made on the campaign
InitCalls ==
    /\ all_posts = <<>>
    /\ relevant_posts = <<>>
    /\ outcome = "idle"
    /\ posts_arg = <<>>
    /\ now_arg = Timestamp("datetime", 0, "")
    /\ last_op = "init"
    /\ status_before = "Planning"
    /\ repeat_call = FALSE
    /\ campaign_list = <<>>
    /\ processed = "none"

\* a new AlertingService, no call made on it
InitService(available) ==
    /\ service = AlertingService(available)
    /\ alerts = <<>>
    /\ emitted = <<>>
    /\ call = NoCall
    /\ analyzed = <<>>
    /\ negative_post_count = 0
    /\ scenario = 0
    /\ history = NoHistory
    /\ collaborator = [classifier |-> "answers", raised |-> FALSE]
    /\ threads = NoThreads

InitIdle == InitCalls /\ InitService(TRUE)

InitMatch == campaign \in MatchCampaigns /\ InitIdle

NextMatch == CallGetPostsForCampaign(MatchPosts)

SpecMatch == InitMatch /\ [][NextMatch]_vars

InitTime == campaign \in TimeCampaigns /\ InitIdle

NextTime == CallGetPostsForCampaign(TimePosts)

SpecTime == InitTime /\ [][NextTime]_vars

\* ---------------------------------------------------------------- metrics
\* sum(post.f for post in posts if post.f is not None), stopped at the
\* first absent value
RECURSIVE SumPresentUntilNone(_, _)
SumPresentUntilNone(posts, f) ==
    IF posts = <<>> THEN 0
    ELSE IF IsNone(Head(posts)[f]) THEN 0
    ELSE Val(Head(posts)[f]) + SumPresentUntilNone(Tail(posts), f)

\* sum(post.f for post in posts if post.f is not None)
RECURSIVE SumPresent(_, _)
SumPresent(posts, f) ==
    IF posts = <<>> THEN 0
    ELSE (IF IsNone(Head(posts)[f]) THEN 0 ELSE Val(Head(posts)[f]))
         + SumPresent(Tail(posts), f)

\* round(num / den, 2) in hundredths: Python rounds half to even
Round2(num, den) ==
    LET q == (num * 100) \div den
        r == (num * 100) % den
    IN IF 2 * r < den THEN q
       ELSE IF 2 * r > den THEN q + 1
       ELSE IF q % 2 = 0 THEN q ELSE q + 1

\* the rate with the reach regime not scaled to a percentage
EngagementRateUnscaled(total_engagements, total_reach, total_posts) ==
    IF total_reach > 0 THEN Round2(total_engagements, total_reach)
    ELSE IF total_posts > 0 THEN Round2(total_engagements, total_posts)
    ELSE 0

\* models.py lines 94-102: avg_engagement_rate, in hundredths
EngagementRate(total_engagements, total_reach, total_posts) ==
    IF total_reach > 0 THEN Round2(total_engagements * 100, total_reach)
    ELSE IF total_posts > 0 THEN Round2(total_engagements, total_posts)
    ELSE 0

\* ----------------------------------------------------------------- status
\* the status logic with the start-date test made before the end-date test
update_status_logic_start_first(c, current_time) ==
    LET ct_for_comparison == current_time.wall
    IN IF ~IsNone(c.start_date) /\ Val(c.start_date) <= ct_for_comparison
       THEN [c EXCEPT !.status = "Active"]
       ELSE IF ~IsNone(c.end_date) /\ Val(c.end_date) < ct_for_comparison
       THEN [c EXCEPT !.status = "Finished"]
       ELSE IF ~IsNone(c.start_date) /\ Val(c.start_date) > ct_for_comparison
       THEN [c EXCEPT !.status = "Planning"]
       ELSE c

\* models.py lines 106-125: Campaign._update_status_logic.  current_time is
\* a datetime; replace(tzinfo=None) keeps its wall-clock value.
update_status_logic(c, current_time) ==
    LET ct_for_comparison == current_time.wall
    IN IF ~IsNone(c.end_date) /\ Val(c.end_date) < ct_for_comparison
       THEN [c EXCEPT !.status = "Finished"]
       ELSE IF ~IsNone(c.start_date) /\ Val(c.start_date) <= ct_for_comparison
       THEN [c EXCEPT !.status = "Active"]
       ELSE IF ~IsNone(c.start_date) /\ Val(c.start_date) > ct_for_comparison
       THEN [c EXCEPT !.status = "Planning"]
       ELSE c

\* datetime.datetime.now(datetime.timezone.utc) when the clock reads `clock`
utcnow(clock) == Timestamp("datetime", clock, "+00:00")

\* models.py lines 127-139: Campaign.update_status(now=None)
update_status(c, now, clock) ==
    LET current_time == IF IsNone(now) THEN utcnow(clock) ELSE Val(now)
    IN update_status_logic(c, current_time)

\* post_id of every post, in order
PostIds(posts) == [i \in 1..Len(posts) |-> posts[i].post_id]

\* update_metrics with the totals added to those the campaign holds
update_metrics_accumulating(c, posts, clock) ==
    IF posts = <<>>
    THEN [c EXCEPT !.total_posts = 0, !.total_likes = 0, !.total_shares = 0,
                   !.total_comments = 0, !.total_reach = 0,
                   !.avg_engagement_rate = 0, !.associated_post_ids = <<>>]
    ELSE LET likes == c.total_likes + SumPresent(posts, "likes")
             shares == c.total_shares + SumPresent(posts, "shares")
             comments == c.total_comments + SumPresent(posts, "comments_count")
             reach == c.total_reach + SumPresent(posts, "reach")
             updated ==
                 [c EXCEPT !.total_posts = Len(posts), !.total_likes = likes,
                           !.total_shares = shares, !.total_comments = comments,
                           !.total_reach = reach,
                           !.associated_post_ids = PostIds(posts),
                           !.avg_engagement_rate =
                               EngagementRate(likes + shares + comments, reach, Len(posts))]
         IN update_status(updated, None, clock)

\* update_metrics with the ids of the posts added to those the campaign holds
update_metrics_keeping_ids(c, posts, clock) ==
    IF posts = <<>>
    THEN [c EXCEPT !.total_posts = 0, !.total_likes = 0, !.total_shares = 0,
                   !.total_comments = 0, !.total_reach = 0,
                   !.avg_engagement_rate = 0]
    ELSE LET likes == SumPresent(posts, "likes")
             shares == SumPresent(posts, "shares")
             comments == SumPresent(posts, "comments_count")
             reach == SumPresent(posts, "reach")
             updated ==
                 [c EXCEPT !.total_posts = Len(posts), !.total_likes = likes,
                           !.total_shares = shares, !.total_comments = comments,
                           !.total_reach = reach,
                           !.associated_post_ids = c.associated_post_ids \o PostIds(posts),
                           !.avg_engagement_rate =
                               EngagementRate(likes + shares + comments, reach, Len(posts))]
         IN update_status(updated, None, clock)

\* models.py lines 62-104: Campaign.update_metrics(posts), the clock reading
\* `clock` when it calls update_status().  The empty list returns at line 75,
\* before the update_status() call of line 104.
update_metrics(c, posts, clock) ==
    IF posts = <<>>
    THEN [c EXCEPT !.total_posts = 0, !.total_likes = 0, !.total_shares = 0,
                   !.total_comments = 0, !.total_reach = 0,
                   !.avg_engagement_rate = 0, !.associated_post_ids = <<>>]
    ELSE LET likes == SumPresent(posts, "likes")
             shares == SumPresent(posts, "shares")
             comments == SumPresent(posts, "comments_count")
             reach == SumPresent(posts, "reach")
             updated ==
                 [c EXCEPT !.total_posts = Len(posts), !.total_likes = likes,
                           !.total_shares = shares, !.total_comments = comments,
                           !.total_reach = reach,
                           !.associated_post_ids = PostIds(posts),
                           !.avg_engagement_rate =
                               EngagementRate(likes + shares + comments, reach, Len(posts))]
         IN update_status(updated, None, clock)

\* ---------------------------------------------------- inputs of the metrics
\* matched posts: shares absent, with reach; likes, comments and reach
\* absent; every field present, with reach zero
MetricPosts ==
    {SocialMediaPost("p1", "acc1", None, Timestamp("datetime", 0, ""),
                     Some(1), None, Some(1), Some(3)),
     SocialMediaPost("p2", "acc1", None, Timestamp("datetime", 0, ""),
                     None, Some(2), None, None),
     SocialMediaPost("p3", "acc1", None, Timestamp("datetime", 0, ""),
                     Some(2), Some(1), Some(0), Some(0))}

\* the `now` argument of update_status: absent, naive, or aware in UTC
NowArgs ==
    {None} \cup {Some(Timestamp("datetime", t, z)) : t \in Times, z \in {"", "+00:00"}}

LifecycleCampaigns ==
    {Campaign(s, e, <<>>, <<>>, <<>>) : s \in OptTimes, e \in OptTimes}

\* ------------------------------------------------------ lifecycle actions
\* campaign.update_metrics(posts) with the clock reading `clock`
UpdateMetrics(posts, clock) ==
    /\ campaign' = update_metrics(campaign, posts, clock)
    /\ posts_arg' = posts
    /\ now_arg' = utcnow(clock)
    /\ last_op' = "update_metrics"
    /\ status_before' = campaign.status
    /\ repeat_call' = (last_op = "update_metrics" /\ posts_arg = posts)
    /\ UNCHANGED <<all_posts, relevant_posts, outcome>>
    /\ UNCHANGED svars
    /\ UNCHANGED xvars
    /\ UNCHANGED hvars

\* campaign.update_status(now) with the clock reading `clock`
UpdateStatus(now, clock) ==
    /\ campaign' = update_status(campaign, now, clock)
    /\ now_arg' = IF IsNone(now) THEN utcnow(clock) ELSE Val(now)
    /\ last_op' = "update_status"
    /\ status_before' = campaign.status
    /\ repeat_call' = FALSE
    /\ UNCHANGED <<all_posts, relevant_posts, outcome, posts_arg>>
    /\ UNCHANGED svars
    /\ UNCHANGED xvars
    /\ UNCHANGED hvars

Init == campaign \in LifecycleCampaigns /\ InitIdle

Next ==
    \/ \E posts \in SeqsUpTo(MetricPosts, MaxPosts), clock \in Times :
           UpdateMetrics(posts, clock)
    \/ \E now \in NowArgs, clock \in Times : UpdateStatus(now, clock)

Spec == Init /\ [][Next]_vars

\* ------------------------------------------------------ process_campaigns
\* the object a list element stands for
ObjectOf(c, ref) == IF ref = "campaign" THEN c ELSE NotACampaign

\* campaign_logic.py lines 120-124: the loop over campaign_list; every
\* element is the Campaign object c.  `matched` is the list handed to the
\* last update_metrics call of the loop, None when there was none.
RECURSIVE ScanCampaignList(_, _, _, _, _)
ScanCampaignList(c, refs, posts, clock, matched) ==
    IF refs = <<>> THEN [result |-> "list", campaign |-> c, matched |-> matched]
    ELSE LET relevant_posts_for_campaign ==
                 get_posts_for_campaign(ObjectOf(c, Head(refs)), posts)
         IN IF relevant_posts_for_campaign.raised
            THEN [result |-> "raised", campaign |-> c, matched |-> matched]
            ELSE ScanCampaignList(
                     update_metrics(c, relevant_posts_for_campaign.relevant, clock),
                     Tail(refs), posts, clock,
                     Some(relevant_posts_for_campaign.relevant))

\* campaign_logic.py lines 111-125: process_campaigns(campaign_list,
\* all_social_posts), the clock reading `clock` during the call.  A list with
\* an element that is no Campaign is logged and answered with [] (116-118).
process_campaigns(c, refs, posts, clock) ==
    IF \E i \in DOMAIN refs : ObjectOf(c, refs[i]).cls # "Campaign"
    THEN [result |-> "empty", campaign |-> c, matched |-> None]
    ELSE ScanCampaignList(c, refs, posts, clock, None)

\* a post of the tracked account acc1, a post of another account, and a post
\* of acc1 whose epoch timestamp is out of range
ProcessPosts ==
    {SocialMediaPost("p1", "acc1", None, Timestamp("datetime", 0, ""),
                     Some(1), None, Some(1), Some(3)),
     SocialMediaPost("p4", "acc2", None, Timestamp("datetime", 0, ""),
                     Some(5), Some(5), Some(5), Some(5)),
     SocialMediaPost("p5", "acc1", None, Timestamp("number", 0, "range"),
                     Some(1), Some(1), Some(1), Some(1))}

\* lists handed to update_metrics directly: posts with and without counters
DirectPosts ==
    {SocialMediaPost("p1", "acc1", None, Timestamp("datetime", 0, ""),
                     Some(1), None, Some(1), Some(3)),
     SocialMediaPost("p2", "acc1", None, Timestamp("datetime", 0, ""),
                     None, Some(2), None, None)}

\* the post handed to the direct get_posts_for_campaign calls
ProbePosts ==
    {SocialMediaPost("p1", "acc1", None, Timestamp("datetime", 0, ""),
                     Some(1), None, Some(1), Some(3))}

\* campaign lists: none, the campaign, the campaign twice, and the campaign
\* before and after an object that is no Campaign
CampaignLists ==
    {<<>>, <<"campaign">>, <<"campaign", "campaign">>,
     <<"campaign", "other">>, <<"other", "campaign">>}

\* one call process_campaigns(campaign_list, all_social_posts).  The campaign
\* has no dates, so its status does not depend on the clock.
ProcessCampaigns(refs, posts) ==
    LET r == process_campaigns(campaign, refs, posts, 0)
    IN /\ campaign' = r.campaign
       /\ campaign_list' = refs
       /\ processed' = r.result
       /\ posts_arg' = IF IsNone(r.matched) THEN posts_arg ELSE Val(r.matched)
       /\ last_op' = "process_campaigns"
       /\ status_before' = campaign.status
       /\ repeat_call' = FALSE
       /\ now_arg' = utcnow(0)
       /\ UNCHANGED <<all_posts, relevant_posts, outcome>>
       /\ UNCHANGED svars
       /\ UNCHANGED hvars

\* one call get_posts_for_campaign(obj, posts) on an object that is no Campaign
CallGetPostsForOther(pool) ==
    /\ outcome = "idle"
    /\ \E posts \in SeqsUpTo(pool, MaxPosts) :
          LET r == get_posts_for_campaign(NotACampaign, posts)
          IN /\ all_posts' = posts
             /\ relevant_posts' = r.relevant
             /\ outcome' = IF r.raised THEN "raised" ELSE "returned"
    /\ campaign_list' = <<"other">>
    /\ UNCHANGED <<campaign, posts_arg, now_arg, last_op, status_before, repeat_call,
                   processed>>
    /\ UNCHANGED svars
    /\ UNCHANGED hvars

InitProcess == campaign = Campaign(None, None, <<>>, <<>>, <<"acc1">>) /\ InitIdle

NextProcess ==
    \/ \E refs \in CampaignLists, posts \in SeqsUpTo(ProcessPosts, MaxPosts) :
           ProcessCampaigns(refs, posts)
    \/ \E posts \in SeqsUpTo(DirectPosts, MaxPosts) : UpdateMetrics(posts, 0)
    \/ CallGetPostsForOther(ProbePosts)
    \/ CallGetPostsForCampaign(ProbePosts)

SpecProcess == InitProcess /\ [][NextProcess]_vars

\* ========================================================= trend tracker
\* one element of current_trends: {"term": term, "count": count}; a missing
\* term is "", a missing count is 0
TrendEntry(term, count) == [term |-> term, count |-> count]

\* the step of the loop with the stored volume written only when an alert
\* is emitted or the term is new
TrendStepBaselineOnAlert(seen, entry) ==
    LET term == entry.term
        count == entry.count
    IN IF term = "" THEN [seen_trends |-> seen, alert |-> None]
       ELSE IF IsNone(seen[term])
       THEN [seen_trends |-> [seen EXCEPT ![term] = Some([volume |-> count])],
             alert |-> IF count >= TREND_VOLUME_THRESHOLD
                       THEN Some(Alert("new_trend", "info", term, "trend_term"))
                       ELSE None]
       ELSE LET prev_volume == Val(seen[term]).volume
                volume_increase == count - prev_volume
            IN IF volume_increase >= TREND_VELOCITY_THRESHOLD
                  /\ count >= TREND_VOLUME_THRESHOLD
               THEN [seen_trends |-> [seen EXCEPT ![term] = Some([volume |-> count])],
                     alert |-> Some(Alert("trend_velocity_spike", "warning",
                                          term, "trend_term"))]
               ELSE [seen_trends |-> seen, alert |-> None]

\* the step of the loop with the velocity test alone deciding the warning
TrendStepVelocityOnly(seen, entry) ==
    LET term == entry.term
        count == entry.count
    IN IF term = "" THEN [seen_trends |-> seen, alert |-> None]
       ELSE IF IsNone(seen[term])
       THEN [seen_trends |-> [seen EXCEPT ![term] = Some([volume |-> count])],
             alert |-> IF count >= TREND_VOLUME_THRESHOLD
                       THEN Some(Alert("new_trend", "info", term, "trend_term"))
                       ELSE None]
       ELSE LET prev_volume == Val(seen[term]).volume
                volume_increase == count - prev_volume
            IN [seen_trends |-> [seen EXCEPT ![term] = Some([volume |-> count])],
                alert |-> IF volume_increase >= TREND_VELOCITY_THRESHOLD
                          THEN Some(Alert("trend_velocity_spike", "warning",
                                          term, "trend_term"))
                          ELSE None]

\* the step of the loop with a term announced as new whenever its count
\* reaches the volume threshold from a stored volume below it
TrendStepNewOnCrossing(seen, entry) ==
    LET term == entry.term
        count == entry.count
    IN IF term = "" THEN [seen_trends |-> seen, alert |-> None]
       ELSE IF IsNone(seen[term]) \/ Val(seen[term]).volume < TREND_VOLUME_THRESHOLD
       THEN [seen_trends |-> [seen EXCEPT ![term] = Some([volume |-> count])],
             alert |-> IF count >= TREND_VOLUME_THRESHOLD
                       THEN Some(Alert("new_trend", "info", term, "trend_term"))
                       ELSE None]
       ELSE LET prev_volume == Val(seen[term]).volume
                volume_increase == count - prev_volume
            IN [seen_trends |-> [seen EXCEPT ![term] = Some([volume |-> count])],
                alert |-> IF volume_increase >= TREND_VELOCITY_THRESHOLD
                             /\ count >= TREND_VOLUME_THRESHOLD
                          THEN Some(Alert("trend_velocity_spike", "warning",
                                          term, "trend_term"))
                          ELSE None]

\* alerting_system.py lines 59-83: one pass of the loop of check_trend_alerts.
\* seen_trends[term] holds the volume last stored for the term, None when
\* the term is not a key; `alert` is the alert appended, if any.
TrendStep(seen, entry) ==
    LET term == entry.term
        count == entry.count
    IN IF term = "" THEN [seen_trends |-> seen, alert |-> None]
       ELSE IF IsNone(seen[term])
       THEN [seen_trends |-> [seen EXCEPT ![term] = Some([volume |-> count])],
             alert |-> IF count >= TREND_VOLUME_THRESHOLD
                       THEN Some(Alert("new_trend", "info", term, "trend_term"))
                       ELSE None]
       ELSE LET prev_volume == Val(seen[term]).volume
                volume_increase == count - prev_volume
            IN [seen_trends |-> [seen EXCEPT ![term] = Some([volume |-> count])],
                alert |-> IF volume_increase >= TREND_VELOCITY_THRESHOLD
                             /\ count >= TREND_VOLUME_THRESHOLD
                          THEN Some(Alert("trend_velocity_spike", "warning",
                                          term, "trend_term"))
                          ELSE None]

\* alerting_system.py lines 55-87: the loop over current_trends
RECURSIVE ScanTrends(_, _, _, _)
ScanTrends(seen, entries, found, per) ==
    IF entries = <<>> THEN [seen_trends |-> seen, alerts |-> found, emitted |-> per]
    ELSE LET step == TrendStep(seen, Head(entries))
         IN ScanTrends(step.seen_trends, Tail(entries), found \o step.alert,
                       Append(per, step.alert))

\* AlertingService.check_trend_alerts(current_trends): the service after the
\* call and the list returned
check_trend_alerts(svc, current_trends) ==
    LET r == ScanTrends(svc.seen_trends, current_trends, <<>>, <<>>)
    IN [service |-> [svc EXCEPT !.seen_trends = r.seen_trends], alerts |-> r.alerts,
        emitted |-> r.emitted]

\* counts around the thresholds: below the volume threshold, at it, at it
\* plus the velocity threshold, and well above
TrendCounts == {0, 99, 100, 150, 210}

TrendEntries ==
    {TrendEntry("X", n) : n \in TrendCounts}
    \cup {TrendEntry("Y", 150), TrendEntry("", 150)}

\* the calls of the example: ("X", 150), ("X", 150), ("X", 210) on a fresh tracker
TrendScenario ==
    << <<TrendEntry("X", 150)>>, <<TrendEntry("X", 150)>>, <<TrendEntry("X", 210)>> >>

\* one call service.check_trend_alerts(current_trends), the lifetime record
\* left to the caller
TrendCall(current_trends) ==
    LET r == check_trend_alerts(service, current_trends)
    IN /\ service' = r.service
       /\ alerts' = r.alerts
       /\ emitted' = r.emitted
       /\ call' = [op |-> "check_trend_alerts", current_trends |-> current_trends,
                   campaigns |-> <<>>, campaign_posts |-> <<>>,
                   posts_map |-> [id \in CampaignIds |-> None], before |-> service]
       /\ analyzed' = <<>>
       /\ negative_post_count' = 0
       /\ scenario' = IF scenario >= 0 /\ scenario < Len(TrendScenario)
                          /\ current_trends = TrendScenario[scenario + 1]
                       THEN scenario + 1
                       ELSE -1
       /\ UNCHANGED <<campaign, all_posts, relevant_posts, outcome, posts_arg, now_arg,
                      last_op, status_before, repeat_call>>
       /\ UNCHANGED xvars

\* one call service.check_trend_alerts(current_trends)
CheckTrendAlerts(current_trends) == TrendCall(current_trends) /\ UNCHANGED hvars

\* the alerts of the list that announce term t as a new trend
NewTrendAlerts(list, t) ==
    {k \in DOMAIN list : list[k].type = "new_trend" /\ list[k].related_entity_id = t}

\* the count of the first entry of the list that names term t
FirstCount(entries, t) ==
    LET named == {i \in DOMAIN entries : entries[i].term = t}
    IN IF named = {} THEN None
       ELSE Some(entries[CHOOSE i \in named : \A j \in named : i <= j].count)

\* the lifetime record after a call that was shown `entries` and returned
\* `returned`
TrackTrends(h, entries, returned) ==
    [h EXCEPT
        !.new_trend =
            [t \in TrendTerms |->
                LET n == h.new_trend[t] + Cardinality(NewTrendAlerts(returned, t))
                IN IF n > 2 THEN 2 ELSE n],
        !.first_count =
            [t \in TrendTerms |->
                IF IsNone(h.first_count[t]) THEN FirstCount(entries, t)
                ELSE h.first_count[t]]]

\* one call service.check_trend_alerts(current_trends), recorded
TrackedCheckTrendAlerts(current_trends) ==
    /\ TrendCall(current_trends)
    /\ history' = TrackTrends(history, current_trends, alerts')
    /\ UNCHANGED <<collaborator, threads>>

\* term X first sighted below the volume threshold or above it, and rising
\* later; term Y
LifetimeEntries ==
    {TrendEntry("X", 99), TrendEntry("X", 150), TrendEntry("X", 210),
     TrendEntry("Y", 150)}

InitLifetime == campaign = Campaign(None, None, <<>>, <<>>, <<>>) /\ InitIdle

NextLifetime ==
    \E current_trends \in SeqsUpTo(LifetimeEntries, MaxEntries) :
        TrackedCheckTrendAlerts(current_trends)

SpecLifetime == InitLifetime /\ [][NextLifetime]_vars

InitTrends == campaign = Campaign(None, None, <<>>, <<>>, <<>>) /\ InitIdle

NextTrends ==
    \E current_trends \in SeqsUpTo(TrendEntries, MaxEntries) :
        CheckTrendAlerts(current_trends)

SpecTrends == InitTrends /\ [][NextTrends]_vars

\* ------------------------------------------------------------ read state
\* trend entries that raise alerts: a new trend, its spike, another new trend
AlertEntries == {TrendEntry("X", 150), TrendEntry("X", 210), TrendEntry("Y", 150)}

\* alerts[k].mark_as_read() on an alert of the returned list, the clock
\* reading `clock`; the clock never runs backwards
MarkAsRead(k, clock) ==
    /\ k \in DOMAIN alerts
    /\ \A j \in DOMAIN alerts : alerts[j].is_read => clock >= Val(alerts[j].read_at)
    /\ alerts' = [alerts EXCEPT ![k] = mark_as_read(@, clock)]
    /\ call' = [call EXCEPT !.op = "mark_as_read"]
    /\ now_arg' = utcnow(clock)
    /\ UNCHANGED <<service, emitted, analyzed, negative_post_count, scenario>>
    /\ UNCHANGED <<campaign, all_posts, relevant_posts, outcome, posts_arg, last_op,
                   status_before, repeat_call>>
    /\ UNCHANGED xvars
    /\ UNCHANGED hvars

InitAlert == campaign = Campaign(None, None, <<>>, <<>>, <<>>) /\ InitIdle

NextAlert ==
    \/ \E current_trends \in SeqsUpTo(AlertEntries, MaxEntries) :
           CheckTrendAlerts(current_trends)
    \/ \E k \in 1..MaxEntries, clock \in Times : MarkAsRead(k, clock)

SpecAlert == InitAlert /\ [][NextAlert]_vars

\* ====================================================== campaign tracker
\* what check_campaign_performance_alerts reads of a Campaign: its id, its
\* status, avg_engagement_rate (hundredths) and total_likes
CampaignSnapshot(id, st, rate, likes) ==
    [campaign_id |-> id, status |-> st, avg_engagement_rate |-> rate,
     total_likes |-> likes]

\* percentage_change with a rise from zero counted as no change
PercentageChangeZeroFlat(current_engagement_rate, prev_engagement_rate) ==
    IF prev_engagement_rate # 0
    THEN [num |-> (current_engagement_rate - prev_engagement_rate) * 100,
          den |-> Abs(prev_engagement_rate)]
    ELSE [num |-> 0, den |-> 1]

\* alerting_system.py lines 108-113: percentage_change as the fraction
\* num / den, den > 0
PercentageChange(current_engagement_rate, prev_engagement_rate) ==
    IF prev_engagement_rate # 0
    THEN [num |-> (current_engagement_rate - prev_engagement_rate) * 100,
          den |-> Abs(prev_engagement_rate)]
    ELSE IF current_engagement_rate > 0
    THEN [num |-> CAMPAIGN_ENGAGEMENT_SPIKE_PERCENTAGE + 1, den |-> 1]
    ELSE [num |-> 0, den |-> 1]

\* the severity with a change of exactly the spike percentage not a spike
PerformanceSeveritySpikeStrict(percentage_change) ==
    IF percentage_change.num > CAMPAIGN_ENGAGEMENT_SPIKE_PERCENTAGE * percentage_change.den
    THEN Some("warning")
    ELSE IF percentage_change.num
                <= CAMPAIGN_ENGAGEMENT_DROP_PERCENTAGE * percentage_change.den
    THEN Some("critical")
    ELSE None

\* alerting_system.py lines 115-125: the severity of the alert, None when
\* alert_msg stays None
PerformanceSeverity(percentage_change) ==
    IF percentage_change.num
           >= CAMPAIGN_ENGAGEMENT_SPIKE_PERCENTAGE * percentage_change.den
    THEN Some("warning")
    ELSE IF percentage_change.num
                <= CAMPAIGN_ENGAGEMENT_DROP_PERCENTAGE * percentage_change.den
    THEN Some("critical")
    ELSE None

\* the observation stored for a campaign (lines 133-137)
Observation(c) ==
    [avg_engagement_rate |-> c.avg_engagement_rate, total_likes |-> c.total_likes]

\* the step of the loop with a first observation compared against zero
PerformanceStepNoBaselineAsZero(prev, c) ==
    IF c.status # "Active"
    THEN [previous_campaign_metrics |-> prev, alert |-> None]
    ELSE LET prev_engagement_rate ==
                 IF IsNone(prev[c.campaign_id]) THEN 0
                 ELSE Val(prev[c.campaign_id]).avg_engagement_rate
             sev == PerformanceSeverity(
                        PercentageChange(c.avg_engagement_rate, prev_engagement_rate))
         IN [previous_campaign_metrics |->
                 [prev EXCEPT ![c.campaign_id] = Some(Observation(c))],
             alert |-> IF IsNone(sev) THEN None
                       ELSE Some(Alert("campaign_performance_change", Val(sev),
                                       c.campaign_id, "campaign"))]

\* the step of the loop with the observation stored only when no alert is
\* emitted
PerformanceStepStoreWhenQuiet(prev, c) ==
    IF c.status # "Active"
    THEN [previous_campaign_metrics |-> prev, alert |-> None]
    ELSE IF IsNone(prev[c.campaign_id])
    THEN [previous_campaign_metrics |->
              [prev EXCEPT ![c.campaign_id] = Some(Observation(c))],
          alert |-> None]
    ELSE LET sev == PerformanceSeverity(
                        PercentageChange(c.avg_engagement_rate,
                                         Val(prev[c.campaign_id]).avg_engagement_rate))
         IN IF IsNone(sev)
            THEN [previous_campaign_metrics |->
                      [prev EXCEPT ![c.campaign_id] = Some(Observation(c))],
                  alert |-> None]
            ELSE [previous_campaign_metrics |-> prev,
                  alert |-> Some(Alert("campaign_performance_change", Val(sev),
                                       c.campaign_id, "campaign"))]

\* the step of the loop with the observation of a campaign that is not
\* Active stored as well
PerformanceStepStoreInactive(prev, c) ==
    IF c.status # "Active"
    THEN [previous_campaign_metrics |->
              [prev EXCEPT ![c.campaign_id] = Some(Observation(c))],
          alert |-> None]
    ELSE IF IsNone(prev[c.campaign_id])
    THEN [previous_campaign_metrics |->
              [prev EXCEPT ![c.campaign_id] = Some(Observation(c))],
          alert |-> None]
    ELSE LET sev == PerformanceSeverity(
                        PercentageChange(c.avg_engagement_rate,
                                         Val(prev[c.campaign_id]).avg_engagement_rate))
         IN [previous_campaign_metrics |->
                 [prev EXCEPT ![c.campaign_id] = Some(Observation(c))],
             alert |-> IF IsNone(sev) THEN None
                       ELSE Some(Alert("campaign_performance_change", Val(sev),
                                       c.campaign_id, "campaign"))]

\* alerting_system.py lines 98-137: one pass of the loop of
\* check_campaign_performance_alerts.  previous_campaign_metrics[id] is the
\* observation stored for the campaign, None when the id is not a key.
PerformanceStep(prev, c) ==
    IF c.status # "Active"
    THEN [previous_campaign_metrics |-> prev, alert |-> None]
    ELSE IF IsNone(prev[c.campaign_id])
    THEN [previous_campaign_metrics |->
              [prev EXCEPT ![c.campaign_id] = Some(Observation(c))],
          alert |-> None]
    ELSE LET sev == PerformanceSeverity(
                        PercentageChange(c.avg_engagement_rate,
                                         Val(prev[c.campaign_id]).avg_engagement_rate))
         IN [previous_campaign_metrics |->
                 [prev EXCEPT ![c.campaign_id] = Some(Observation(c))],
             alert |-> IF IsNone(sev) THEN None
                       ELSE Some(Alert("campaign_performance_change", Val(sev),
                                       c.campaign_id, "campaign"))]

\* alerting_system.py lines 94-138: the loop over the campaigns
RECURSIVE ScanCampaigns(_, _, _, _)
ScanCampaigns(prev, campaigns, found, per) ==
    IF campaigns = <<>>
    THEN [previous_campaign_metrics |-> prev, alerts |-> found, emitted |-> per]
    ELSE LET step == PerformanceStep(prev, Head(campaigns))
         IN ScanCampaigns(step.previous_campaign_metrics, Tail(campaigns),
                          found \o step.alert, Append(per, step.alert))

\* AlertingService.check_campaign_performance_alerts(campaigns): the service
\* after the call and the list returned
check_campaign_performance_alerts(svc, campaigns) ==
    LET r == ScanCampaigns(svc.previous_campaign_metrics, campaigns, <<>>, <<>>)
    IN [service |-> [svc EXCEPT !.previous_campaign_metrics = r.previous_campaign_metrics],
        alerts |-> r.alerts, emitted |-> r.emitted]

\* campaign c1 Active at rates 0, 1.5, 2.0, 2.5 and 2.6, and Finished; campaign
\* c2 Active
PerformanceCampaigns ==
    {CampaignSnapshot("c1", "Active", 0, 0),
     CampaignSnapshot("c1", "Active", 150, 3),
     CampaignSnapshot("c1", "Active", 200, 3),
     CampaignSnapshot("c1", "Active", 250, 3),
     CampaignSnapshot("c1", "Active", 260, 7),
     CampaignSnapshot("c1", "Finished", 150, 3),
     CampaignSnapshot("c2", "Active", 250, 3)}

\* one call service.check_campaign_performance_alerts(campaigns), the
\* lifetime record left to the caller
PerformanceCall(campaigns) ==
    LET r == check_campaign_performance_alerts(service, campaigns)
    IN /\ service' = r.service
       /\ alerts' = r.alerts
       /\ emitted' = r.emitted
       /\ call' = [op |-> "check_campaign_performance_alerts",
                   current_trends |-> <<>>, campaigns |-> campaigns,
                   campaign_posts |-> <<>>,
                   posts_map |-> [id \in CampaignIds |-> None], before |-> service]
       /\ analyzed' = <<>>
       /\ negative_post_count' = 0
       /\ scenario' = -1
       /\ UNCHANGED <<campaign, all_posts, relevant_posts, outcome, posts_arg, now_arg,
                      last_op, status_before, repeat_call>>
       /\ UNCHANGED xvars

\* one call service.check_campaign_performance_alerts(campaigns)
CheckCampaignPerformanceAlerts(campaigns) ==
    PerformanceCall(campaigns) /\ UNCHANGED hvars

\* the lifetime record after the campaigns of a list were shown, one after
\* the other, from element i on
RECURSIVE TrackCampaigns(_, _, _)
TrackCampaigns(h, campaigns, i) ==
    IF i > Len(campaigns) THEN h
    ELSE LET c == campaigns[i]
             id == c.campaign_id
         IN TrackCampaigns(
                IF c.status = "Active"
                THEN [h EXCEPT !.last_active[id] = Some(c.avg_engagement_rate),
                               !.idle[id] = FALSE,
                               !.resumed[id] =
                                   IF h.idle[id] /\ IsNone(h.resumed[id])
                                   THEN Some([p |-> Val(h.last_active[id]), at |-> i])
                                   ELSE h.resumed[id]]
                ELSE [h EXCEPT !.idle[id] = ~IsNone(h.last_active[id])],
                campaigns, i + 1)

\* one call service.check_campaign_performance_alerts(campaigns), recorded
TrackedCheckCampaignPerformanceAlerts(campaigns) ==
    /\ PerformanceCall(campaigns)
    /\ history' = TrackCampaigns([history EXCEPT !.resumed = NoHistory.resumed],
                                 campaigns, 1)
    /\ UNCHANGED <<collaborator, threads>>

\* campaign c1 Active at rates 2.5 and 2.0, and not Active at two other
\* rates; campaign c2 Active
StaleCampaigns ==
    {CampaignSnapshot("c1", "Active", 250, 3),
     CampaignSnapshot("c1", "Active", 200, 3),
     CampaignSnapshot("c1", "Finished", 150, 3),
     CampaignSnapshot("c1", "Planning", 400, 3),
     CampaignSnapshot("c2", "Active", 250, 3)}

InitStale == campaign = Campaign(None, None, <<>>, <<>>, <<>>) /\ InitIdle

NextStale ==
    \E campaigns \in SeqsUpTo(StaleCampaigns, MaxEntries) :
        TrackedCheckCampaignPerformanceAlerts(campaigns)

SpecStale == InitStale /\ [][NextStale]_vars

InitPerformance == campaign = Campaign(None, None, <<>>, <<>>, <<>>) /\ InitIdle

NextPerformance ==
    \E campaigns \in SeqsUpTo(PerformanceCampaigns, MaxEntries) :
        CheckCampaignPerformanceAlerts(campaigns)

SpecPerformance == InitPerformance /\ [][NextPerformance]_vars

\* ==================================================== sentiment detector
\* a post as check_sentiment_alerts reads it: its content, the attribute
\* sentiment_label (None when the post has none) and the label of the dict
\* attribute sentiment (None when the post has none)
SentimentPost(text, attr_label, dict_label) ==
    [content |-> text, sentiment_label |-> attr_label, sentiment |-> dict_label]

BadText == <<"b", "a", "d">>

OkText == <<"o", "k">>

\* analyzer.py lines 39-77: SentimentAnalyzer.analyze_sentiment on the texts
\* of the model: "bad" is a negative keyword, "ok" is no keyword
analyze_sentiment(text) ==
    IF text = <<>> THEN [label |-> "neutral"]
    ELSE IF text = BadText THEN [label |-> "negative"]
    ELSE [label |-> "neutral"]

\* alerting_system.py lines 154-174: one pass of the loop of
\* check_sentiment_alerts: whether the post is counted as negative, and the
\* post when it is handed to analyze_sentiment
SentimentStep(post) ==
    IF IsNone(post.content) \/ Val(post.content) = <<>>
    THEN [negative |-> FALSE, analyzed |-> <<>>]
    ELSE LET attr == post.sentiment_label
             pre == IF IsNone(attr) /\ ~IsNone(post.sentiment) THEN post.sentiment
                    ELSE attr
             sentiment_label ==
                 IF IsNone(pre) THEN analyze_sentiment(Val(post.content)).label
                 ELSE Val(pre)
         IN [negative |-> sentiment_label = "negative",
             analyzed |-> IF IsNone(pre) THEN <<post>> ELSE <<>>]

\* alerting_system.py lines 152-174: the loop over campaign_posts
RECURSIVE ScanSentiment(_, _, _)
ScanSentiment(posts, count, handed) ==
    IF posts = <<>> THEN [negative_post_count |-> count, analyzed |-> handed]
    ELSE LET step == SentimentStep(Head(posts))
         IN ScanSentiment(Tail(posts),
                          IF step.negative THEN count + 1 ELSE count,
                          handed \o step.analyzed)

\* alerting_system.py lines 176-178: negative_post_count / len(campaign_posts)
\* * 100 >= NEGATIVE_SENTIMENT_THRESHOLD * 100
Surge(negative_count, campaign_posts) ==
    /\ negative_count > 0
    /\ negative_count * 100 >= NEGATIVE_SENTIMENT_THRESHOLD * Len(campaign_posts)

\* AlertingService.check_sentiment_alerts(campaign, campaign_posts): the list
\* returned, the tally, and the posts handed to the classifier
check_sentiment_alerts(svc, c, campaign_posts) ==
    IF ~svc.ai_analyzer
    THEN [alerts |-> <<>>, negative_post_count |-> 0, analyzed |-> <<>>]
    ELSE IF campaign_posts = <<>> \/ Len(campaign_posts) < NEGATIVE_SENTIMENT_POST_COUNT
    THEN [alerts |-> <<>>, negative_post_count |-> 0, analyzed |-> <<>>]
    ELSE LET r == ScanSentiment(campaign_posts, 0, <<>>)
         IN [alerts |-> IF Surge(r.negative_post_count, campaign_posts)
                        THEN <<Alert("negative_sentiment_surge", "critical",
                                     c.campaign_id, "campaign")>>
                        ELSE <<>>,
             negative_post_count |-> r.negative_post_count,
             analyzed |-> r.analyzed]

\* the kinds of post: labelled negative by attribute, labelled negative by
\* dict, labelled neutral over a negative text, unlabelled with a negative
\* text, unlabelled with a neutral text, without text and unlabelled, without
\* text and labelled negative
SentimentKinds ==
    <<SentimentPost(Some(OkText), Some("negative"), None),
      SentimentPost(Some(OkText), None, Some("negative")),
      SentimentPost(Some(BadText), Some("neutral"), None),
      SentimentPost(Some(BadText), None, None),
      SentimentPost(Some(OkText), None, None),
      SentimentPost(None, None, None),
      SentimentPost(None, Some("negative"), None)>>

\* the ways to take at most m posts of the first k kinds: how many of each
RECURSIVE Compositions(_, _)
Compositions(k, m) ==
    IF k = 0 THEN {<<>>}
    ELSE UNION {{Append(c, n) : c \in Compositions(k - 1, m - n)} : n \in 0..m}

\* n times the post x
Repeat(x, n) == [i \in 1..n |-> x]

\* the list with counts[k] posts of kind k, kind after kind
RECURSIVE PostsOf(_, _)
PostsOf(counts, k) ==
    IF k = 0 THEN <<>>
    ELSE PostsOf(counts, k - 1) \o Repeat(SentimentKinds[k], counts[k])

\* the lists of at most m posts handed to check_sentiment_alerts
SentimentLists(m) ==
    {PostsOf(counts, Len(SentimentKinds)) :
        counts \in Compositions(Len(SentimentKinds), m)}

\* one call service.check_sentiment_alerts(campaign, campaign_posts) for an
\* Active campaign.  The call writes nothing it reads, so one call per
\* behaviour covers every call.
CheckSentimentAlerts ==
    /\ call.op = "none"
    /\ \E campaign_posts \in SentimentLists(MaxItems) :
          LET c == CampaignSnapshot("c1", "Active", 250, 3)
              r == check_sentiment_alerts(service, c, campaign_posts)
          IN /\ alerts' = r.alerts
             /\ emitted' = <<>>
             /\ call' = [op |-> "check_sentiment_alerts", current_trends |-> <<>>,
                         campaigns |-> <<c>>, campaign_posts |-> campaign_posts,
                         posts_map |-> [id \in CampaignIds |-> None],
                         before |-> service]
             /\ analyzed' = r.analyzed
             /\ negative_post_count' = r.negative_post_count
    /\ scenario' = -1
    /\ UNCHANGED <<service, campaign, all_posts, relevant_posts, outcome, posts_arg,
                   now_arg, last_op, status_before, repeat_call>>
    /\ UNCHANGED xvars
    /\ UNCHANGED hvars

InitSentiment ==
    /\ campaign = Campaign(None, None, <<>>, <<>>, <<>>)
    /\ InitCalls
    /\ \E available \in BOOLEAN : InitService(available)

NextSentiment == CheckSentimentAlerts

SpecSentiment == InitSentiment /\ [][NextSentiment]_vars

\* ====================================================== alert coordinator
\* the sentiment checks with the status of the campaign not looked at
RECURSIVE ScanSentimentCampaignsAnyStatus(_, _, _, _, _, _)
ScanSentimentCampaignsAnyStatus(svc, campaigns, posts_map, found, handed, tally) ==
    IF campaigns = <<>>
    THEN [alerts |-> found, analyzed |-> handed, negative_post_count |-> tally]
    ELSE LET c == Head(campaigns)
         IN IF ~IsNone(posts_map[c.campaign_id])
            THEN LET r == check_sentiment_alerts(svc, c, Val(posts_map[c.campaign_id]))
                 IN ScanSentimentCampaignsAnyStatus(svc, Tail(campaigns), posts_map,
                                                    found \o r.alerts,
                                                    handed \o r.analyzed,
                                                    r.negative_post_count)
            ELSE ScanSentimentCampaignsAnyStatus(svc, Tail(campaigns), posts_map,
                                                 found, handed, tally)

\* alerting_system.py lines 206-212: the sentiment checks of run_all_checks
\* over the campaigns; posts_map[id] is the list of posts of the campaign,
\* None when the id is no key of all_posts_for_sentiment_analysis
RECURSIVE ScanSentimentCampaigns(_, _, _, _, _, _)
ScanSentimentCampaigns(svc, campaigns, posts_map, found, handed, tally) ==
    IF campaigns = <<>>
    THEN [alerts |-> found, analyzed |-> handed, negative_post_count |-> tally]
    ELSE LET c == Head(campaigns)
         IN IF c.status = "Active" /\ ~IsNone(posts_map[c.campaign_id])
            THEN LET r == check_sentiment_alerts(svc, c, Val(posts_map[c.campaign_id]))
                 IN ScanSentimentCampaigns(svc, Tail(campaigns), posts_map,
                                           found \o r.alerts, handed \o r.analyzed,
                                           r.negative_post_count)
            ELSE ScanSentimentCampaigns(svc, Tail(campaigns), posts_map,
                                        found, handed, tally)

\* run_all_checks with the performance alerts put before the trend alerts
run_all_checks_performance_first(svc, campaigns, current_trends_data, posts_map) ==
    LET trend == check_trend_alerts(svc, current_trends_data)
        perf == check_campaign_performance_alerts(trend.service, campaigns)
        sentiment ==
            IF perf.service.ai_analyzer /\ \E id \in CampaignIds : ~IsNone(posts_map[id])
            THEN ScanSentimentCampaigns(perf.service, campaigns, posts_map, <<>>, <<>>, 0)
            ELSE [alerts |-> <<>>, analyzed |-> <<>>, negative_post_count |-> 0]
    IN [service |-> perf.service,
        alerts |-> perf.alerts \o trend.alerts \o sentiment.alerts,
        emitted |-> perf.emitted,
        analyzed |-> sentiment.analyzed,
        negative_post_count |-> sentiment.negative_post_count]

\* AlertingService.run_all_checks(campaigns, current_trends_data,
\* all_posts_for_sentiment_analysis): trend alerts, then performance alerts,
\* then sentiment alerts.  A mapping without keys is the absent or empty one.
run_all_checks(svc, campaigns, current_trends_data, posts_map) ==
    LET trend == check_trend_alerts(svc, current_trends_data)
        perf == check_campaign_performance_alerts(trend.service, campaigns)
        sentiment ==
            IF perf.service.ai_analyzer /\ \E id \in CampaignIds : ~IsNone(posts_map[id])
            THEN ScanSentimentCampaigns(perf.service, campaigns, posts_map, <<>>, <<>>, 0)
            ELSE [alerts |-> <<>>, analyzed |-> <<>>, negative_post_count |-> 0]
    IN [service |-> perf.service,
        alerts |-> trend.alerts \o perf.alerts \o sentiment.alerts,
        emitted |-> perf.emitted,
        analyzed |-> sentiment.analyzed,
        negative_post_count |-> sentiment.negative_post_count]

\* campaign c1 Active at two rates and Finished at a third, campaign c2 in
\* Planning
CycleCampaigns ==
    {CampaignSnapshot("c1", "Active", 250, 3),
     CampaignSnapshot("c1", "Active", 150, 3),
     CampaignSnapshot("c1", "Finished", 200, 5),
     CampaignSnapshot("c2", "Planning", 250, 3)}

\* the other arguments of run_all_checks: no trend and no mapping; or one
\* trend entry and a mapping that gives campaign c1 as many posts as the
\* detector asks for, all labelled negative
CycleInputs ==
    {[current_trends_data |-> <<>>, posts_map |-> [id \in CampaignIds |-> None]],
     [current_trends_data |-> <<TrendEntry("X", 150)>>,
      posts_map |-> [id \in CampaignIds |->
                        IF id = "c1"
                        THEN Some(Repeat(SentimentKinds[1], NEGATIVE_SENTIMENT_POST_COUNT))
                        ELSE None]]}

\* one call service.run_all_checks(campaigns, current_trends_data, posts_map);
\* emitted holds the performance alerts per campaign
RunAllChecks(campaigns, current_trends_data, posts_map) ==
    LET r == run_all_checks(service, campaigns, current_trends_data, posts_map)
    IN /\ service' = r.service
       /\ alerts' = r.alerts
       /\ emitted' = r.emitted
       /\ call' = [op |-> "run_all_checks", current_trends |-> current_trends_data,
                   campaigns |-> campaigns, campaign_posts |-> <<>>,
                   posts_map |-> posts_map, before |-> service]
       /\ analyzed' = r.analyzed
       /\ negative_post_count' = r.negative_post_count
       /\ scenario' = -1
       /\ UNCHANGED <<campaign, all_posts, relevant_posts, outcome, posts_arg, now_arg,
                      last_op, status_before, repeat_call>>
       /\ UNCHANGED xvars
       /\ UNCHANGED hvars

InitCycle == campaign = Campaign(None, None, <<>>, <<>>, <<>>) /\ InitIdle

NextCycle ==
    \/ \E campaigns \in SeqsUpTo(CycleCampaigns, MaxEntries) :
           CheckCampaignPerformanceAlerts(campaigns)
    \/ \E campaigns \in SeqsUpTo(CycleCampaigns, MaxEntries), rest \in CycleInputs :
           RunAllChecks(campaigns, rest.current_trends_data, rest.posts_map)

SpecCycle == InitCycle /\ [][NextCycle]_vars

\* ------------------------------------------- the classifier as collaborator
\* alerting_system.py line 170: analyze_sentiment is invoked with no handler
\* around it, in check_sentiment_alerts and (line 209) in run_all_checks, so
\* a call in which the classifier raises when invoked ends with that
\* exception at the first post handed to it: nothing is returned.
check_sentiment_alerts_on(svc, c, campaign_posts, classifier) ==
    LET r == check_sentiment_alerts(svc, c, campaign_posts)
    IN IF classifier = "raises" /\ r.analyzed # <<>>
       THEN [raised |-> TRUE, alerts |-> <<>>,
             negative_post_count |-> 0, analyzed |-> <<r.analyzed[1]>>]
       ELSE [raised |-> FALSE, alerts |-> r.alerts,
             negative_post_count |-> r.negative_post_count, analyzed |-> r.analyzed]

\* run_all_checks with that classifier: the trend and performance checks of
\* lines 196 and 201 have run, and written the service, when the sentiment
\* loop of lines 206-212 reaches the classifier
run_all_checks_on(svc, campaigns, current_trends_data, posts_map, classifier) ==
    LET Ended(r) ==
            IF classifier = "raises" /\ r.analyzed # <<>>
            THEN [raised |-> TRUE, service |-> r.service, alerts |-> <<>>,
                  emitted |-> r.emitted, analyzed |-> <<r.analyzed[1]>>,
                  negative_post_count |-> 0]
            ELSE [raised |-> FALSE, service |-> r.service, alerts |-> r.alerts,
                  emitted |-> r.emitted, analyzed |-> r.analyzed,
                  negative_post_count |-> r.negative_post_count]
    IN CHOOSE ended \in
           {Ended(r) : r \in {run_all_checks(svc, campaigns, current_trends_data,
                                             posts_map)}} : TRUE

\* the campaigns arguments: campaigns c1 and c2 Active at a baseline and
\* away from it, c2 in Planning before an Active c1, c1 twice
CoordinatorCampaigns ==
    {<<>>,
     <<CampaignSnapshot("c1", "Active", 250, 3)>>,
     <<CampaignSnapshot("c1", "Active", 250, 3), CampaignSnapshot("c2", "Active", 250, 3)>>,
     <<CampaignSnapshot("c1", "Active", 150, 3), CampaignSnapshot("c2", "Active", 400, 3)>>,
     <<CampaignSnapshot("c2", "Planning", 250, 3), CampaignSnapshot("c1", "Active", 250, 3)>>,
     <<CampaignSnapshot("c1", "Active", 150, 3), CampaignSnapshot("c1", "Active", 250, 3)>>}

\* as many posts of a kind as the detector asks for
Batch(k) == Repeat(SentimentKinds[k], NEGATIVE_SENTIMENT_POST_COUNT)

\* the mapping that gives campaign c1 the posts m1 and campaign c2 the posts
\* m2, None for a campaign that is no key
PostsMap(m1, m2) == [id \in CampaignIds |-> IF id = "c1" THEN m1 ELSE m2]

\* the other arguments of run_all_checks and the classifier during the call:
\* nothing; two trends and both campaigns with posts labelled negative; one
\* trend and campaign c2 alone with textless posts labelled negative; one
\* trend and campaign c1 alone with unlabelled negative texts, the classifier
\* answering or raising
CoordinatorInputs ==
    {[current_trends_data |-> <<>>, posts_map |-> PostsMap(None, None),
      classifier |-> "answers"],
     [current_trends_data |-> <<TrendEntry("X", 150), TrendEntry("Y", 150)>>,
      posts_map |-> PostsMap(Some(Batch(1)), Some(Batch(1))),
      classifier |-> "answers"],
     [current_trends_data |-> <<TrendEntry("X", 210)>>,
      posts_map |-> PostsMap(None, Some(Batch(7))),
      classifier |-> "answers"],
     [current_trends_data |-> <<TrendEntry("X", 150)>>,
      posts_map |-> PostsMap(Some(Batch(4)), None),
      classifier |-> "answers"],
     [current_trends_data |-> <<TrendEntry("X", 150)>>,
      posts_map |-> PostsMap(Some(Batch(4)), None),
      classifier |-> "raises"]}

\* the arguments of a direct check_sentiment_alerts call: posts labelled
\* negative, unlabelled negative texts, one post too few
DetectorInputs == {Batch(1), Batch(4), Repeat(SentimentKinds[1], 9)}

\* one call service.run_all_checks(campaigns, current_trends_data, posts_map)
\* with the classifier answering or raising
RunCycle(campaigns, input) ==
    \E r \in {run_all_checks_on(service, campaigns, input.current_trends_data,
                                input.posts_map, input.classifier)} :
       /\ service' = r.service
       /\ alerts' = r.alerts
       /\ emitted' = r.emitted
       /\ call' = [op |-> "run_all_checks",
                   current_trends |-> input.current_trends_data,
                   campaigns |-> campaigns, campaign_posts |-> <<>>,
                   posts_map |-> input.posts_map, before |-> service]
       /\ analyzed' = r.analyzed
       /\ negative_post_count' = r.negative_post_count
       /\ scenario' = -1
       /\ collaborator' = [classifier |-> input.classifier, raised |-> r.raised]
       /\ UNCHANGED <<campaign, all_posts, relevant_posts, outcome, posts_arg, now_arg,
                      last_op, status_before, repeat_call>>
       /\ UNCHANGED xvars
       /\ UNCHANGED <<history, threads>>

\* one call service.check_sentiment_alerts(campaign, campaign_posts) for the
\* Active campaign c1, at any time in the life of the service
RunDetector(campaign_posts, classifier) ==
    LET c == CampaignSnapshot("c1", "Active", 250, 3)
        r == check_sentiment_alerts_on(service, c, campaign_posts, classifier)
    IN /\ alerts' = r.alerts
       /\ emitted' = <<>>
       /\ call' = [op |-> "check_sentiment_alerts", current_trends |-> <<>>,
                   campaigns |-> <<c>>, campaign_posts |-> campaign_posts,
                   posts_map |-> PostsMap(None, None), before |-> service]
       /\ analyzed' = r.analyzed
       /\ negative_post_count' = r.negative_post_count
       /\ scenario' = -1
       /\ collaborator' = [classifier |-> classifier, raised |-> r.raised]
       /\ UNCHANGED <<service, campaign, all_posts, relevant_posts, outcome,
                      posts_arg, now_arg, last_op, status_before, repeat_call>>
       /\ UNCHANGED xvars
       /\ UNCHANGED <<history, threads>>

InitCoordinator == InitSentiment

NextCoordinator ==
    \/ \E campaigns \in CoordinatorCampaigns, input \in CoordinatorInputs :
           RunCycle(campaigns, input)
    \/ \E campaign_posts \in DetectorInputs, classifier \in {"answers", "raises"} :
           RunDetector(campaign_posts, classifier)

SpecCoordinator == InitCoordinator /\ [][NextCoordinator]_vars

\* ================================================ two threads, one service
\* the calls a thread makes
ThreadCalls ==
    {[op |-> "check_trend_alerts", args |-> <<TrendEntry("X", 150)>>],
     [op |-> "check_trend_alerts", args |-> <<TrendEntry("X", 210)>>],
     [op |-> "check_trend_alerts",
      args |-> <<TrendEntry("Y", 150), TrendEntry("X", 150)>>],
     [op |-> "check_campaign_performance_alerts",
      args |-> <<CampaignSnapshot("c1", "Active", 250, 3)>>],
     [op |-> "check_campaign_performance_alerts",
      args |-> <<CampaignSnapshot("c2", "Finished", 250, 3),
                 CampaignSnapshot("c1", "Active", 150, 3)>>]}

\* self.seen_trends for check_trend_alerts, self.previous_campaign_metrics
\* for check_campaign_performance_alerts
SharedMap(op, svc) ==
    IF op = "check_trend_alerts" THEN svc.seen_trends ELSE svc.previous_campaign_metrics

WithSharedMap(op, svc, m) ==
    IF op = "check_trend_alerts" THEN [svc EXCEPT !.seen_trends = m]
    ELSE [svc EXCEPT !.previous_campaign_metrics = m]

\* the key of the element: term, or campaign.campaign_id
KeyOf(op, item) == IF op = "check_trend_alerts" THEN item.term ELSE item.campaign_id

\* alerting_system.py lines 62-63 and 98-99: the pass is left at once
Skipped(op, item) ==
    IF op = "check_trend_alerts" THEN item.term = "" ELSE item.status # "Active"

\* a membership test that never finds the key
MembershipTestNeverFinds(m, key) == FALSE

\* alerting_system.py lines 65 and 103: term in self.seen_trends,
\* campaign.campaign_id in self.previous_campaign_metrics
MembershipTest(m, key) == ~IsNone(m[key])

\* the rest of a pass, on the map as the pass saw it: the alert it appends
\* and the value it writes under the key
PassOn(op, view, item) ==
    IF op = "check_trend_alerts"
    THEN LET r == TrendStep(view, item)
         IN [value |-> r.seen_trends[item.term], alert |-> r.alert]
    ELSE LET r == PerformanceStep(view, item)
         IN [value |-> r.previous_campaign_metrics[item.campaign_id],
             alert |-> r.alert]

\* the call as a whole, on the service svc
CallOn(svc, c) ==
    IF c.op = "check_trend_alerts" THEN check_trend_alerts(svc, c.args)
    ELSE check_campaign_performance_alerts(svc, c.args)

\* every thread has returned from its call
RoundOver == \A th \in ThreadIds : threads.t[th].pc = "done"

\* the lists returned and the service are those of thread a's whole call
\* followed by thread b's whole call
EqualsSequence(a, b) ==
    LET r1 == CallOn(threads.base, threads.t[a])
        r2 == CallOn(r1.service, threads.t[b])
    IN /\ threads.t[a].out = r1.alerts
       /\ threads.t[b].out = r2.alerts
       /\ service = r2.service

\* the thread after the pass on element i: at the next element, or returned
AfterPass(t, found) ==
    IF t.i < Len(t.args)
    THEN [t EXCEPT !.pc = "test", !.i = t.i + 1, !.seen = <<>>, !.out = found]
    ELSE [t EXCEPT !.pc = "done", !.seen = <<>>, !.out = found]

\* the holder of the exclusive access after thread th got to tt
Released(th, tt) ==
    IF tt.pc = "done" /\ threads.holder = th THEN 0 ELSE threads.holder

UnchangedByThreads ==
    /\ UNCHANGED <<campaign, all_posts, relevant_posts, outcome, posts_arg, now_arg,
                   last_op, status_before, repeat_call>>
    /\ UNCHANGED <<emitted, call, analyzed, negative_post_count, scenario>>
    /\ UNCHANGED xvars
    /\ UNCHANGED <<history, collaborator>>

\* the threads are between calls and agree on how to call from now on
StartRound(mode) ==
    /\ \A th \in ThreadIds : threads.t[th].pc \in {"idle", "done"}
    /\ threads.mode # mode \/ threads.t # NoThreads.t
    /\ threads' =
           [NoThreads EXCEPT
               !.mode = mode,
               !.base = service,
               !.raced = IF RoundOver /\ ~EqualsSequence(1, 2) /\ ~EqualsSequence(2, 1)
                         THEN <<threads.t[1].out, threads.t[2].out>>
                         ELSE threads.raced]
    /\ UNCHANGED <<service, alerts>>
    /\ UnchangedByThreads

\* thread th enters the call c (lines 55-56, 95-96), with exclusive access
\* in mode "exclusive"
Begin(th, c) ==
    /\ threads.t[th].pc = "idle"
    /\ threads.mode = "exclusive" => threads.holder = 0
    /\ threads' =
           [threads EXCEPT
               !.t[th] = [pc |-> "test", op |-> c.op, args |-> c.args, i |-> 1,
                          seen |-> <<>>, out |-> <<>>],
               !.holder = IF threads.mode = "exclusive" THEN th ELSE 0,
               !.order = Append(threads.order, th)]
    /\ UNCHANGED <<service, alerts>>
    /\ UnchangedByThreads

\* lines 59-65, 97-103: thread th takes the next element and tests whether
\* its key is in the map
Test(th) ==
    LET t == threads.t[th]
        item == t.args[t.i]
        tt == IF Skipped(t.op, item) THEN AfterPass(t, t.out)
              ELSE IF MembershipTest(SharedMap(t.op, service), KeyOf(t.op, item))
              THEN [t EXCEPT !.pc = "read"]
              ELSE [t EXCEPT !.pc = "write", !.seen = <<>>]
    IN /\ t.pc = "test"
       /\ threads' = [threads EXCEPT !.t[th] = tt, !.holder = Released(th, tt)]
       /\ alerts' = IF tt.pc = "done" THEN tt.out ELSE alerts
       /\ UNCHANGED service
       /\ UnchangedByThreads

\* lines 74 and 104-105: thread th reads what is stored under the key
Read(th) ==
    LET t == threads.t[th]
        item == t.args[t.i]
    IN /\ t.pc = "read"
       /\ threads' = [threads EXCEPT
                          !.t[th] = [t EXCEPT
                                        !.pc = "write",
                                        !.seen = SharedMap(t.op, service)
                                                     [KeyOf(t.op, item)]]]
       /\ UNCHANGED <<service, alerts>>
       /\ UnchangedByThreads

\* lines 66-71, 75-83, 107-137: thread th appends the alert that what it
\* has read deserves and writes the map under the key; after the last
\* element it returns its list (lines 87, 138)
Write(th) ==
    LET t == threads.t[th]
        item == t.args[t.i]
        key == KeyOf(t.op, item)
        shared == SharedMap(t.op, service)
        r == PassOn(t.op, [shared EXCEPT ![key] = t.seen], item)
        tt == AfterPass(t, t.out \o r.alert)
    IN /\ t.pc = "write"
       /\ service' = WithSharedMap(t.op, service, [shared EXCEPT ![key] = r.value])
       /\ threads' = [threads EXCEPT !.t[th] = tt, !.holder = Released(th, tt)]
       /\ alerts' = IF tt.pc = "done" THEN tt.out ELSE alerts
       /\ UnchangedByThreads

InitThreads == campaign = Campaign(None, None, <<>>, <<>>, <<>>) /\ InitIdle

NextThreads ==
    \/ \E mode \in {"exclusive", "free"} : StartRound(mode)
    \/ \E th \in ThreadIds, c \in ThreadCalls : Begin(th, c)
    \/ \E th \in ThreadIds : Test(th)
    \/ \E th \in ThreadIds : Read(th)
    \/ \E th \in ThreadIds : Write(th)

SpecThreads == InitThreads /\ [][NextThreads]_vars

\* ================================================================ claims
\* ------------------------------------------------- vocabulary of the claims
\* the post is an element of the returned list
IsReturned(p) == \E j \in DOMAIN relevant_posts : relevant_posts[j] = p

\* the text of a post, a post without text having the empty text
TextOf(p) == IF IsNone(p.content) THEN <<>> ELSE Val(p.content)

Textless(p) == IsNone(p.content) \/ Val(p.content) = <<>>

NoCriteria(c) ==
    c.tracked_keywords = <<>> /\ c.tracked_hashtags = <<>> /\ c.tracked_accounts = <<>>

AccountTracked(c, p) ==
    \E i \in DOMAIN c.tracked_accounts : c.tracked_accounts[i] = p.account_id

KeywordFound(c, p) ==
    \E i \in DOMAIN c.tracked_keywords :
        IsSubstring(Lower(c.tracked_keywords[i]), Lower(TextOf(p)))

HashtagFound(c, p) ==
    \E i \in DOMAIN c.tracked_hashtags :
        IsSubstring(<<"#">> \o Lower(c.tracked_hashtags[i]), Lower(TextOf(p)))

CriteriaHold(c, p) == AccountTracked(c, p) \/ KeywordFound(c, p) \/ HashtagFound(c, p)

\* the UTC offset, in hours, that a tzinfo or an offset suffix stands for
UtcOffset(z) == IF z = "+01:00" THEN 1 ELSE 0

\* the timestamp can be normalized: a number in range, ISO-8601 text, a datetime
Normalizable(ts) ==
    \/ ts.kind = "number" /\ ts.tz # "range"
    \/ ts.kind = "str" /\ ts.tz # "??"
    \/ ts.kind = "datetime"

\* the normalized timestamp: the naive wall-clock value the matcher compares
\* with the campaign dates (an epoch number read in UTC, the wall-clock
\* fields of ISO-8601 text or of a datetime)
ComparedTime(ts) == ts.wall

\* the instant a timestamp denotes, as UTC wall-clock hours (naive read as UTC)
Instant(ts) == IF ts.kind = "number" THEN ts.wall ELSE ts.wall - UtcOffset(ts.tz)

\* the window as the claim words it: startDate <= t, endDate absent or t <= endDate
WindowAsClaimed(c, t) ==
    /\ ~IsNone(c.start_date) /\ Val(c.start_date) <= t
    /\ IsNone(c.end_date) \/ t <= Val(c.end_date)

\* the window with an absent startDate unbounded below
WindowOpenStart(c, t) ==
    /\ IsNone(c.start_date) \/ Val(c.start_date) <= t
    /\ IsNone(c.end_date) \/ t <= Val(c.end_date)

\* the items the matcher is to skip: text that does not parse, a timestamp of
\* an unsupported type, an element that is no SocialMediaPost
MalformedItem(p) ==
    \/ ~IsPost(p)
    \/ p.timestamp.kind = "str" /\ p.timestamp.tz = "??"
    \/ p.timestamp.kind = "other"

NotMalformed(p) == ~MalformedItem(p)

OutOfRange(p) == IsPost(p) /\ p.timestamp.kind = "number" /\ p.timestamp.tz = "range"

\* C1: a campaign whose tracked_keywords, tracked_hashtags and
\* tracked_accounts are all empty gets the empty list from
\* get_posts_for_campaign, whatever the posts, also posts inside its window.
C1_NoCriteriaNoMatch ==
    (outcome # "idle" /\ NoCriteria(campaign))
        => (outcome = "returned" /\ relevant_posts = <<>>)

C1_Witness ==
    /\ outcome = "returned"
    /\ NoCriteria(campaign)
    /\ \E i \in DOMAIN all_posts :
          WindowOpenStart(campaign, ComparedTime(all_posts[i].timestamp))

C3_RepresentationIndependent ==
    outcome = "returned" =>
        \A i, j \in DOMAIN all_posts :
            LET p == all_posts[i]
                q == all_posts[j]
            IN (/\ IsPost(p) /\ IsPost(q)
                /\ [p EXCEPT !.timestamp = q.timestamp] = q
                /\ Normalizable(p.timestamp) /\ Normalizable(q.timestamp)
                /\ Instant(p.timestamp) = Instant(q.timestamp))
                   => (IsReturned(p) <=> IsReturned(q))

C5_TextlessOnlyByAccount ==
    outcome = "returned" =>
        \A i \in DOMAIN all_posts :
            LET p == all_posts[i]
            IN (/\ IsPost(p) /\ Textless(p)
                /\ Normalizable(p.timestamp)
                /\ WindowOpenStart(campaign, Instant(p.timestamp)))
                   => (IsReturned(p) <=> AccountTracked(campaign, p))

\* ------------------------------------------- vocabulary of the metrics claims
\* a field of a post, an absent field counted as zero
FieldOrZero(p, f) == IF IsNone(p[f]) THEN 0 ELSE Val(p[f])

\* the sum of field f over the first n posts, absent fields counted as zero
RECURSIVE TotalOf(_, _, _)
TotalOf(posts, f, n) ==
    IF n = 0 THEN 0 ELSE TotalOf(posts, f, n - 1) + FieldOrZero(posts[n], f)

\* h hundredths is num/den rounded to two decimals, a tie going to the even
IsRounded2(h, num, den) ==
    /\ 2 * Abs(h * den - 100 * num) <= den
    /\ 2 * Abs(h * den - 100 * num) = den => h % 2 = 0

MetricsBlock(c) ==
    <<c.total_posts, c.total_likes, c.total_shares, c.total_comments,
      c.total_reach, c.avg_engagement_rate, c.associated_post_ids>>

ZeroMetrics == <<0, 0, 0, 0, 0, 0, <<>> >>

\* the status the dates give at time t; `prior` when no date is usable
StatusFromDates(start, end, t, prior) ==
    IF ~IsNone(end) /\ Val(end) < t THEN "Finished"
    ELSE IF ~IsNone(start) /\ Val(start) <= t THEN "Active"
    ELSE IF ~IsNone(start) /\ Val(start) > t THEN "Planning"
    ELSE prior

\* C6: update_metrics with an empty list resets every total and the rate to
\* zero, clears associated_post_ids, and recomputes the status from the dates.
C6_EmptyListResetsAndRecomputes ==
    (last_op = "update_metrics" /\ posts_arg = <<>>) =>
        /\ MetricsBlock(campaign) = ZeroMetrics
        /\ campaign.status =
               StatusFromDates(campaign.start_date, campaign.end_date,
                               now_arg.wall, status_before)

\* C7: for a non-empty list update_metrics sets total_posts to the number of
\* posts, total_likes, total_shares and total_comments to the sums of the
\* fields with an absent field counted as zero, and total_reach to the sum of
\* the reach values that are present.
C7_TotalsAreSums ==
    posts_arg # <<>> =>
        /\ campaign.total_posts = Len(posts_arg)
        /\ campaign.total_likes = TotalOf(posts_arg, "likes", Len(posts_arg))
        /\ campaign.total_shares = TotalOf(posts_arg, "shares", Len(posts_arg))
        /\ campaign.total_comments = TotalOf(posts_arg, "comments_count", Len(posts_arg))
        /\ campaign.total_reach = TotalOf(posts_arg, "reach", Len(posts_arg))

C7_Witness ==
    /\ last_op = "update_metrics"
    /\ Len(posts_arg) >= 2
    /\ IsNone(posts_arg[1].shares) /\ ~IsNone(posts_arg[1].likes)
    /\ IsNone(posts_arg[2].likes) /\ IsNone(posts_arg[2].reach)
    /\ campaign.total_likes > 0 /\ campaign.total_shares > 0

\* C8: with E = total_likes + total_shares + total_comments, the rate is
\* round(E / R * 100, 2) when total_reach R > 0, round(E / P, 2) when R = 0
\* and total_posts P > 0, and 0.0 when there are no posts.
C8_EngagementRegime ==
    LET E == campaign.total_likes + campaign.total_shares + campaign.total_comments
        R == campaign.total_reach
        P == campaign.total_posts
    IN /\ R > 0 => IsRounded2(campaign.avg_engagement_rate, E * 100, R)
       /\ (R = 0 /\ P > 0) => IsRounded2(campaign.avg_engagement_rate, E, P)
       /\ P = 0 => campaign.avg_engagement_rate = 0

C8_Witness ==
    /\ last_op = "update_metrics"
    /\ campaign.total_reach = 0
    /\ campaign.total_posts > 0
    /\ \A i \in DOMAIN posts_arg : IsNone(posts_arg[i].reach)
    /\ campaign.avg_engagement_rate > 0

\* C9: an update_metrics call with the list of the update_metrics call just
\* before it leaves the totals, the rate and associated_post_ids as the first
\* call set them.
C9_Idempotent ==
    [][(last_op' = "update_metrics" /\ repeat_call')
           => MetricsBlock(campaign') = MetricsBlock(campaign)]_vars

C9_Witness ==
    /\ last_op = "update_metrics"
    /\ repeat_call
    /\ posts_arg # <<>>
    /\ campaign.total_likes > 0

\* C10: update_status(now) makes the status Finished if endDate is present
\* and endDate < now; else Active if startDate is present and startDate <=
\* now; else Planning if startDate is present and startDate > now; else it
\* leaves the status as it was.
C10_StatusDerivation ==
    last_op = "update_status" =>
        campaign.status =
            StatusFromDates(campaign.start_date, campaign.end_date,
                            now_arg.wall, status_before)

C10_Witness ==
    /\ last_op = "update_status"
    /\ ~IsNone(campaign.end_date) /\ Val(campaign.end_date) < now_arg.wall
    /\ IsNone(campaign.start_date)
    /\ status_before = "Planning"
    /\ campaign.status = "Finished"

\* C11: the status is a function of (startDate, endDate, now) alone: after
\* any history of update_status / update_metrics calls, a final
\* update_status(now) leaves the campaign with the status that the same call
\* leaves a campaign of the same dates that has no history; the status held
\* before the call has no part in it.
C11_StatusPureFunction ==
    last_op = "update_status" =>
        campaign.status =
            update_status(Campaign(campaign.start_date, campaign.end_date,
                                   <<>>, <<>>, <<>>),
                          Some(now_arg), 0).status

\* ------------------------------------------- vocabulary of the trend claims
IsTrendCall == call.op = "check_trend_alerts"

\* the entries of the call that name term t
EntriesOf(t) == {i \in DOMAIN call.current_trends : call.current_trends[i].term = t}

\* the largest element of a non-empty set of numbers
Last(S) == CHOOSE i \in S : \A j \in S : j <= i

\* the volume stored for the term of entry i when the entry is processed: the
\* count of the entry before it that names the term, else what the service
\* held when the call began; None when the term has not been seen
VolumeBefore(i) ==
    LET t == call.current_trends[i].term
        earlier == {j \in EntriesOf(t) : j < i}
    IN IF earlier # {} THEN Some(call.current_trends[Last(earlier)].count)
       ELSE IF IsNone(call.before.seen_trends[t]) THEN None
       ELSE Some(Val(call.before.seen_trends[t]).volume)

\* the returned alerts that refer to term t
AlertsFor(t) == {k \in DOMAIN alerts : alerts[k].related_entity_id = t}

\* the alert the decision rule gives entry i, as a list of length 0 or 1
RuleAlert(i) ==
    LET e == call.current_trends[i]
        last == VolumeBefore(i)
    IN IF e.term = "" THEN <<>>
       ELSE IF IsNone(last) /\ e.count >= 100
       THEN <<[type |-> "new_trend", severity |-> "info"]>>
       ELSE IF ~IsNone(last) /\ e.count - Val(last) >= 50 /\ e.count >= 100
       THEN <<[type |-> "trend_velocity_spike", severity |-> "warning"]>>
       ELSE <<>>

\* the alerts the decision rule gives the first n entries, in order
RECURSIVE RuleAlerts(_)
RuleAlerts(n) == IF n = 0 THEN <<>> ELSE RuleAlerts(n - 1) \o RuleAlert(n)

KindOf(a) == [type |-> a.type, severity |-> a.severity]

\* C12: after check_trend_alerts the volume stored for every term the call
\* named is the count of the last entry naming it, alert or not, threshold
\* reached or not; an entry whose count is the volume stored for its term
\* emits no alert; and the calls (X,150), (X,150), (X,210) on a fresh tracker
\* return one info alert, then none, then one warning alert.
C12_BaselineAdvances ==
    IsTrendCall =>
        /\ \A t \in TrendTerms :
               /\ EntriesOf(t) # {} =>
                      service.seen_trends[t] =
                          Some([volume |-> call.current_trends[Last(EntriesOf(t))].count])
               /\ Cardinality(AlertsFor(t)) <=
                      Cardinality({i \in EntriesOf(t) :
                                      VolumeBefore(i) # Some(call.current_trends[i].count)})
        /\ scenario = 1 => (Len(alerts) = 1 /\ alerts[1].severity = "info")
        /\ scenario = 2 => alerts = <<>>
        /\ scenario = 3 => (Len(alerts) = 1 /\ alerts[1].severity = "warning")

C12_Witness ==
    /\ IsTrendCall
    /\ scenario = 3
    /\ Len(alerts) = 1
    /\ service.seen_trends["X"] = Some([volume |-> 210])

IsPerformanceCall == call.op = "check_campaign_performance_alerts"

\* the elements of the campaigns argument that are campaign id and Active
ActiveEntries(id) ==
    {i \in DOMAIN call.campaigns :
        call.campaigns[i].campaign_id = id /\ call.campaigns[i].status = "Active"}

\* the observation a campaign has when element i is evaluated: that of the
\* Active element of the same campaign before it in the list, else the one
\* the service held when the call began; None without a prior observation
ObservationBefore(i) ==
    LET id == call.campaigns[i].campaign_id
        earlier == {j \in ActiveEntries(id) : j < i}
    IN IF earlier # {}
       THEN Some([avg_engagement_rate |-> call.campaigns[Last(earlier)].avg_engagement_rate,
                  total_likes |-> call.campaigns[Last(earlier)].total_likes])
       ELSE call.before.previous_campaign_metrics[id]

\* element i is an Active campaign with the stored previous rate p
ActiveWithPrevious(i, p) ==
    /\ call.campaigns[i].status = "Active"
    /\ ~IsNone(ObservationBefore(i))
    /\ Val(ObservationBefore(i)).avg_engagement_rate = p

Rates == {c.avg_engagement_rate : c \in PerformanceCampaigns}

PerformanceAlert(sev, id) ==
    [type |-> "campaign_performance_change", severity |-> sev,
     related_entity_id |-> id, related_entity_type |-> "campaign", is_read |-> FALSE,
     read_at |-> None]

\* C14: an Active campaign without a prior observation gets no alert from
\* check_campaign_performance_alerts, whatever its rate, and its current rate
\* is recorded as its baseline.
C14_NoBaselineNoAlert ==
    IsPerformanceCall =>
        \A i \in DOMAIN call.campaigns :
            LET c == call.campaigns[i]
            IN (c.status = "Active" /\ IsNone(ObservationBefore(i))) =>
                   /\ emitted[i] = <<>>
                   /\ ~IsNone(service.previous_campaign_metrics[c.campaign_id])
                   /\ i = Last(ActiveEntries(c.campaign_id)) =>
                          Val(service.previous_campaign_metrics[c.campaign_id])
                              .avg_engagement_rate = c.avg_engagement_rate

C14_Witness ==
    /\ IsPerformanceCall
    /\ Len(call.campaigns) = 1
    /\ call.campaigns[1].status = "Active"
    /\ call.campaigns[1].avg_engagement_rate > 0
    /\ IsNone(call.before.previous_campaign_metrics[call.campaigns[1].campaign_id])
    /\ alerts = <<>>
    /\ ~IsNone(service.previous_campaign_metrics[call.campaigns[1].campaign_id])

\* C15: for an Active campaign with stored previous rate p # 0 and current
\* rate c, with pct = (c - p) / |p| * 100, the call emits one warning alert
\* iff pct >= 30, one critical alert iff pct <= -20, and none otherwise,
\* never both; p = 2.5 and c = 1.5 give one critical alert.
C15_SpikeDropRule ==
    IsPerformanceCall =>
        \A i \in DOMAIN call.campaigns : \A p \in Rates \ {0} :
            ActiveWithPrevious(i, p) =>
                LET c == call.campaigns[i].avg_engagement_rate
                    id == call.campaigns[i].campaign_id
                IN /\ Len(emitted[i]) <= 1
                   /\ emitted[i] = <<PerformanceAlert("warning", id)>>
                          <=> (c - p) * 100 >= 30 * Abs(p)
                   /\ emitted[i] = <<PerformanceAlert("critical", id)>>
                          <=> (c - p) * 100 <= -20 * Abs(p)
                   /\ (p = 250 /\ c = 150) =>
                          emitted[i] = <<PerformanceAlert("critical", id)>>

C15_Witness ==
    /\ IsPerformanceCall
    /\ \E i \in DOMAIN call.campaigns :
          /\ ActiveWithPrevious(i, 250)
          /\ call.campaigns[i].avg_engagement_rate = 150
          /\ alerts = <<PerformanceAlert("critical", call.campaigns[i].campaign_id)>>

\* C16: with a stored previous rate of exactly 0, a current rate > 0 gives
\* one warning alert whatever its size and a current rate of 0 gives none;
\* the call returns, nothing is divided by the zero baseline.
C16_ZeroBaseline ==
    IsPerformanceCall =>
        \A i \in DOMAIN call.campaigns :
            ActiveWithPrevious(i, 0) =>
                LET c == call.campaigns[i].avg_engagement_rate
                    id == call.campaigns[i].campaign_id
                IN /\ c > 0 => emitted[i] = <<PerformanceAlert("warning", id)>>
                   /\ c = 0 => emitted[i] = <<>>

C16_Witness ==
    /\ IsPerformanceCall
    /\ \E i, j \in DOMAIN call.campaigns :
          /\ ActiveWithPrevious(i, 0) /\ call.campaigns[i].avg_engagement_rate = 0
          /\ ActiveWithPrevious(j, 0) /\ call.campaigns[j].avg_engagement_rate > 0
          /\ Len(alerts) = 1

\* the elements of a campaigns argument that share an id are one campaign
OneObjectPerId(campaigns) ==
    \A i, j \in DOMAIN campaigns :
        campaigns[i].campaign_id = campaigns[j].campaign_id => campaigns[i] = campaigns[j]

\* C18: after check_campaign_performance_alerts the observation stored for
\* every Active campaign of the input holds its current avg_engagement_rate
\* and total_likes, alert or not; a call with the same campaigns and
\* unchanged rates right after it returns no alert.
C18_ObservationAlwaysStored ==
    [][(call'.op = "check_campaign_performance_alerts") =>
          /\ \A i \in DOMAIN call'.campaigns :
                 (/\ call'.campaigns[i].status = "Active"
                  /\ \A j \in DOMAIN call'.campaigns :
                         (/\ call'.campaigns[j].campaign_id = call'.campaigns[i].campaign_id
                          /\ call'.campaigns[j].status = "Active") => j <= i)
                 => service'.previous_campaign_metrics[call'.campaigns[i].campaign_id] =
                        Some([avg_engagement_rate |-> call'.campaigns[i].avg_engagement_rate,
                              total_likes |-> call'.campaigns[i].total_likes])
          /\ (/\ IsPerformanceCall
               /\ call'.campaigns = call.campaigns
               /\ OneObjectPerId(call.campaigns))
              => alerts' = <<>>]_vars

C18_Witness ==
    /\ IsPerformanceCall
    /\ Len(alerts) = 1
    /\ \A id \in CampaignIds : ActiveEntries(id) # {}
    /\ \E i \in DOMAIN call.campaigns :
          /\ emitted[i] # <<>>
          /\ service.previous_campaign_metrics[call.campaigns[i].campaign_id] =
                 Some([avg_engagement_rate |-> 260, total_likes |-> 7])

\* ------------------------------------- vocabulary of the coordinator claims
\* the call evaluated campaign performance
EvaluatesPerformance ==
    call.op = "check_campaign_performance_alerts" \/ call.op = "run_all_checks"

\* the returned performance alerts that refer to campaign id
PerformanceAlertsFor(id) ==
    {k \in DOMAIN alerts :
        alerts[k].type = "campaign_performance_change" /\ alerts[k].related_entity_id = id}

\* C17: every entry of previous_campaign_metrics was written from a campaign
\* that was Active in the call that wrote it; a call in which a campaign is
\* not Active neither creates nor changes nor removes the campaign's entry and
\* returns no performance alert for it.
C17_OnlyActiveObserved ==
    /\ \A id \in CampaignIds :
           ~IsNone(service.previous_campaign_metrics[id]) =>
               \E c \in CycleCampaigns :
                   /\ c.campaign_id = id /\ c.status = "Active"
                   /\ Val(service.previous_campaign_metrics[id]) =
                          [avg_engagement_rate |-> c.avg_engagement_rate,
                           total_likes |-> c.total_likes]
    /\ EvaluatesPerformance =>
           \A id \in CampaignIds :
               ActiveEntries(id) = {} =>
                   /\ service.previous_campaign_metrics[id] =
                          call.before.previous_campaign_metrics[id]
                   /\ PerformanceAlertsFor(id) = {}
                   /\ \A i \in DOMAIN call.campaigns :
                          call.campaigns[i].campaign_id = id => emitted[i] = <<>>

C17_Witness ==
    /\ call.op = "run_all_checks"
    /\ \E i \in DOMAIN call.campaigns :
          LET c == call.campaigns[i]
          IN /\ c.status # "Active"
             /\ ActiveEntries(c.campaign_id) = {}
             /\ ~IsNone(call.before.previous_campaign_metrics[c.campaign_id])
             /\ Val(call.before.previous_campaign_metrics[c.campaign_id])
                    .avg_engagement_rate # c.avg_engagement_rate
             /\ service.previous_campaign_metrics[c.campaign_id] =
                    call.before.previous_campaign_metrics[c.campaign_id]
    /\ alerts # <<>>


\* -------------------------------------- vocabulary of the sentiment claims
\* a call of check_sentiment_alerts on a service whose classifier is available
IsSentimentCall == call.op = "check_sentiment_alerts" /\ call.before.ai_analyzer

HasText(q) == ~IsNone(q.content) /\ Val(q.content) # <<>>

\* the label attached to the post beforehand: the attribute sentiment_label,
\* else the label of the attribute sentiment; None when there is neither
PreAttached(q) == IF ~IsNone(q.sentiment_label) THEN q.sentiment_label ELSE q.sentiment

\* the post has no label attached and has text for the classifier
ForClassifier(q) == IsNone(PreAttached(q)) /\ HasText(q)

\* the resolved label: the label attached beforehand when there is one, else
\* the classifier's label of the text, else none
ResolvedLabel(q) ==
    IF ~IsNone(PreAttached(q)) THEN PreAttached(q)
    ELSE IF HasText(q) THEN Some(analyze_sentiment(Val(q.content)).label)
    ELSE None

\* the number of items whose resolved label is negative
NegativeCount ==
    Cardinality({i \in DOMAIN call.campaign_posts :
                    ResolvedLabel(call.campaign_posts[i]) = Some("negative")})

SurgeAlert(id) ==
    [type |-> "negative_sentiment_surge", severity |-> "critical",
     related_entity_id |-> id, related_entity_type |-> "campaign", is_read |-> FALSE,
     read_at |-> None]

\* C19: check_sentiment_alerts returns one critical negative_sentiment_surge
\* alert iff there are at least 10 items and negativeCount / len(items) >= 0.6,
\* every item counted in the denominator, textless ones too; otherwise it
\* returns no alert; it never returns more than one.
C19_SurgeRule ==
    IsSentimentCall =>
        LET n == Len(call.campaign_posts)
        IN /\ Len(alerts) <= 1
           /\ alerts = <<SurgeAlert(call.campaigns[1].campaign_id)>>
                  <=> (n >= 10 /\ NegativeCount * 100 >= 60 * n)

\* C20: a label attached beforehand is used whenever there is one and the
\* classifier is invoked only for the items without one; an item counts
\* toward the negative tally iff its resolved label is negative; an item with
\* neither label nor text is not handed to the classifier and is not counted.
C20_LabelResolution ==
    (IsSentimentCall /\ Len(call.campaign_posts) >= 10) =>
        /\ analyzed = SelectSeq(call.campaign_posts, ForClassifier)
        /\ negative_post_count = NegativeCount

\* C26: an Alert is created with is_read = False and read_at = None;
\* mark_as_read sets is_read = True and read_at to the time of the call; any
\* further mark_as_read call leaves is_read and read_at exactly as the first
\* call set them, and is_read never returns to False.
C26_MarkAsReadIdempotent ==
    [][/\ call'.op # "mark_as_read" =>
              \A k \in DOMAIN alerts' :
                  ~alerts'[k].is_read /\ alerts'[k].read_at = None
       /\ call'.op = "mark_as_read" =>
              /\ DOMAIN alerts' = DOMAIN alerts
              /\ \A k \in DOMAIN alerts :
                     /\ alerts[k].is_read => alerts'[k] = alerts[k]
                     /\ (~alerts[k].is_read /\ alerts'[k] # alerts[k]) =>
                            /\ alerts'[k].is_read
                            /\ alerts'[k].read_at = Some(now_arg'.wall)]_vars

\* --------------------------------------- vocabulary of the processing claims
\* the step is a get_posts_for_campaign call made directly
IsMatchStep == outcome' # outcome

\* the step is a process_campaigns call
IsProcessStep == last_op' = "process_campaigns" /\ outcome' = outcome

\* the object handed in, or an element of the list handed in, is no Campaign
HandedNonCampaign == \E i \in DOMAIN campaign_list' : campaign_list'[i] = "other"

\* C25: passing an object that is no Campaign to get_posts_for_campaign, or
\* within the list given to process_campaigns, aborts the call with an
\* invalid-argument error instead of returning a normal result, and the
\* aborted call mutates no campaign.
C25_MisuseFailsFast ==
    [][/\ (IsMatchStep /\ HandedNonCampaign) =>
              (outcome' = "raised" /\ campaign' = campaign)
       /\ (IsProcessStep /\ HandedNonCampaign) =>
              (processed' = "raised" /\ campaign' = campaign)]_vars

\* C30: after any sequence of update_metrics / process_campaigns calls,
\* total_posts is the length of associated_post_ids, associated_post_ids
\* lists the post ids of the most recent matched list in its order and
\* nothing else, and every total is >= 0; a get_posts_for_campaign call
\* changes no field of the campaign.
C30_IdsOfLastPass ==
    /\ [](/\ campaign.total_posts = Len(campaign.associated_post_ids)
          /\ Len(campaign.associated_post_ids) = Len(posts_arg)
          /\ \A i \in DOMAIN posts_arg :
                 campaign.associated_post_ids[i] = posts_arg[i].post_id
          /\ campaign.total_likes >= 0 /\ campaign.total_shares >= 0
          /\ campaign.total_comments >= 0 /\ campaign.total_reach >= 0
          /\ campaign.avg_engagement_rate >= 0)
    /\ [][IsMatchStep => campaign' = campaign]_vars

\* a get_posts_for_campaign call was made, and a process_campaigns call over
\* the campaign listed twice matched one post of two and stored its id
C30_Witness ==
    /\ outcome = "returned"
    /\ last_op = "process_campaigns"
    /\ processed = "list"
    /\ campaign_list = <<"campaign", "campaign">>
    /\ campaign.associated_post_ids = <<"p1">>
    /\ campaign.total_likes = 1

\* ------------------------------------------ vocabulary of the lifetime claims
\* the first element of the current_trends argument that names term t
FirstEntryOf(t) == CHOOSE i \in EntriesOf(t) : \A j \in EntriesOf(t) : i <= j

\* C28: over any sequence of check_trend_alerts calls a term gets at most one
\* new_trend alert, and only at its first sighting: a term first sighted
\* below TREND_VOLUME_THRESHOLD never gets one afterwards, whatever its later
\* counts (its alerts are trend_velocity_spike alerts); and seen_trends never
\* loses a key.
C28_OneNewTrendPerLifetime ==
    \A t \in TrendTerms :
        /\ history.new_trend[t] <= 1
        /\ history.new_trend[t] = 1 =>
               /\ ~IsNone(history.first_count[t])
               /\ Val(history.first_count[t]) >= TREND_VOLUME_THRESHOLD
        /\ (~IsNone(history.first_count[t])
               /\ Val(history.first_count[t]) < TREND_VOLUME_THRESHOLD) =>
               /\ history.new_trend[t] = 0
               /\ \A k \in AlertsFor(t) : alerts[k].type = "trend_velocity_spike"
        /\ ~IsNone(history.first_count[t]) => ~IsNone(service.seen_trends[t])
        /\ (IsTrendCall /\ NewTrendAlerts(alerts, t) # {}) =>
               /\ IsNone(call.before.seen_trends[t])
               /\ emitted[FirstEntryOf(t)] # <<>>
               /\ \A i \in EntriesOf(t) : i # FirstEntryOf(t) =>
                      (emitted[i] = <<>> \/ emitted[i][1].type # "new_trend")

\* term X was first sighted below the threshold and now, far above it, gets
\* a velocity alert and no new_trend alert; term Y, announced once, is
\* sighted again above the threshold and is not announced again
C28_Witness ==
    /\ IsTrendCall
    /\ history.first_count["X"] = Some(99)
    /\ call.current_trends = <<TrendEntry("X", 210), TrendEntry("Y", 150)>>
    /\ history.new_trend["X"] = 0
    /\ ~IsNone(call.before.seen_trends["Y"])
    /\ history.new_trend["Y"] = 1
    /\ Len(alerts) = 1
    /\ alerts[1].type = "trend_velocity_spike"
    /\ alerts[1].related_entity_id = "X"

\* C29: a campaign observed while Active with rate p, then shown not Active
\* (at whatever rate), then Active again with rate c, is compared with the
\* old p, the last rate recorded while it was Active: the call emits the
\* spike or drop alert that c against p deserves.
C29_StaleBaseline ==
    IsPerformanceCall =>
        \A id \in CampaignIds :
            ~IsNone(history.resumed[id]) =>
                LET p == Val(history.resumed[id]).p
                    i == Val(history.resumed[id]).at
                    c == call.campaigns[i].avg_engagement_rate
                IN /\ call.campaigns[i].campaign_id = id
                   /\ call.campaigns[i].status = "Active"
                   /\ p # 0
                   /\ emitted[i] =
                          IF (c - p) * 100 >= 30 * Abs(p)
                          THEN <<PerformanceAlert("warning", id)>>
                          ELSE IF (c - p) * 100 <= -20 * Abs(p)
                          THEN <<PerformanceAlert("critical", id)>>
                          ELSE <<>>

\* campaign c1, recorded at 2.5 and shown Finished at 1.5 by an earlier call,
\* is Active at 2.0: a drop of 20% against 2.5 (against 1.5 it would be a
\* spike)
C29_Witness ==
    /\ IsPerformanceCall
    /\ call.campaigns = <<CampaignSnapshot("c1", "Active", 200, 3)>>
    /\ history.resumed["c1"] = Some([p |-> 250, at |-> 1])
    /\ alerts = <<PerformanceAlert("critical", "c1")>>

\* ------------------------------------ vocabulary of the coordinator claims
IsCycle == call.op = "run_all_checks"

\* the producer of an alert: 1 the trend tracker, 2 the campaign tracker,
\* 3 the sentiment detector
Rank(a) ==
    IF a.related_entity_type = "trend_term" THEN 1
    ELSE IF a.type = "negative_sentiment_surge" THEN 3
    ELSE 2

\* the returned alerts of one producer, in the order returned
OfRank(n) == SelectSeq(alerts, LAMBDA a : Rank(a) = n)

IdsOf(list) == [k \in DOMAIN list |-> list[k].related_entity_id]

\* a can be had from b by leaving elements out
RECURSIVE IsSubsequence(_, _)
IsSubsequence(a, b) ==
    IF a = <<>> THEN TRUE
    ELSE IF b = <<>> THEN FALSE
    ELSE IF Head(a) = Head(b) THEN IsSubsequence(Tail(a), Tail(b))
    ELSE IsSubsequence(a, Tail(b))

RECURSIVE Flatten(_)
Flatten(lists) == IF lists = <<>> THEN <<>> ELSE Head(lists) \o Flatten(Tail(lists))

\* campaign i of the call is Active and its id is a key of the mapping
SentimentDue(i) ==
    /\ call.campaigns[i].status = "Active"
    /\ ~IsNone(call.posts_map[call.campaigns[i].campaign_id])

\* the posts the mapping gives campaign i
PostsFor(i) == Val(call.posts_map[call.campaigns[i].campaign_id])

\* the number of posts whose resolved label is negative
NegativesIn(posts) ==
    Cardinality({j \in DOMAIN posts : ResolvedLabel(posts[j]) = Some("negative")})

\* what the two trackers return when called one after the other on the
\* service as it was before the call
TrackersAlone ==
    LET trend == check_trend_alerts(call.before, call.current_trends)
        perf == check_campaign_performance_alerts(trend.service, call.campaigns)
    IN [service |-> perf.service, alerts |-> trend.alerts \o perf.alerts]

\* the classifier was not there, or raised when the call invoked it on a post
ClassifierFailed ==
    \/ ~call.before.ai_analyzer
    \/ collaborator.classifier = "raises" /\ analyzed # <<>>

\* C21: the sentiment detector keeps no state across calls:
\* check_sentiment_alerts leaves seen_trends and previous_campaign_metrics
\* as they were, and every run_all_checks cycle, whatever the cycles before
\* it, returns the negative_sentiment_surge alert for every Active campaign
\* whose (at least 10) items have a negative fraction >= 0.6.
C21_NoCrossCallState ==
    /\ []((IsCycle /\ call.before.ai_analyzer /\ ~collaborator.raised) =>
             \A i \in DOMAIN call.campaigns :
                 (/\ SentimentDue(i)
                  /\ Len(PostsFor(i)) >= 10
                  /\ NegativesIn(PostsFor(i)) * 100 >= 60 * Len(PostsFor(i))) =>
                     \E k \in DOMAIN alerts :
                         alerts[k] = SurgeAlert(call.campaigns[i].campaign_id))
    /\ [][call'.op = "check_sentiment_alerts" => service' = service]_vars

\* C22: in the list run_all_checks returns every trend alert precedes every
\* performance alert, which precedes every sentiment alert; the trend alerts
\* are in the order of their entries, the performance alerts and the
\* sentiment alerts in the order of their campaigns.
C22_ProducerOrder ==
    (IsCycle /\ ~collaborator.raised) =>
        /\ \A j, k \in DOMAIN alerts : j < k => Rank(alerts[j]) <= Rank(alerts[k])
        /\ IsSubsequence(IdsOf(OfRank(1)),
                         [i \in DOMAIN call.current_trends |->
                             call.current_trends[i].term])
        /\ OfRank(2) = Flatten(emitted)
        /\ IsSubsequence(IdsOf(OfRank(3)),
                         [i \in DOMAIN call.campaigns |->
                             call.campaigns[i].campaign_id])

\* a cycle returned two trend alerts, two performance alerts and two
\* sentiment alerts
C22_Witness ==
    /\ IsCycle
    /\ Len(alerts) = 6
    /\ IdsOf(alerts) = <<"X", "Y", "c1", "c2", "c1", "c2">>
    /\ alerts[3] = PerformanceAlert("critical", "c1")
    /\ alerts[4] = PerformanceAlert("warning", "c2")
    /\ alerts[5] = SurgeAlert("c1")

\* C23: run_all_checks evaluates sentiment for a campaign iff the campaign is
\* Active and its id is a key of the mapping: the sentiment alerts returned
\* are those of the detector for these campaigns, none is returned for a
\* campaign that is Planning or Finished or no key of the mapping; the trend
\* and performance checks run over all the inputs whatever the mapping.
C23_SentimentOnlyActiveMapped ==
    IsCycle =>
        /\ \A k \in DOMAIN alerts :
               Rank(alerts[k]) = 3 =>
                   \E i \in DOMAIN call.campaigns :
                       /\ call.campaigns[i].campaign_id = alerts[k].related_entity_id
                       /\ SentimentDue(i)
        /\ service = TrackersAlone.service
        /\ (~collaborator.raised) =>
               /\ OfRank(1) \o OfRank(2) = TrackersAlone.alerts
               /\ call.before.ai_analyzer =>
                      OfRank(3) =
                          Flatten([i \in DOMAIN call.campaigns |->
                                      IF SentimentDue(i)
                                      THEN check_sentiment_alerts(
                                               call.before, call.campaigns[i],
                                               PostsFor(i)).alerts
                                      ELSE <<>>])

\* the mapping gives both campaigns posts that deserve the alert; campaign
\* c2, in Planning, gets none and campaign c1, Active, gets one, after the
\* trend alerts of the cycle
C23_Witness ==
    /\ IsCycle
    /\ call.campaigns = <<CampaignSnapshot("c2", "Planning", 250, 3),
                          CampaignSnapshot("c1", "Active", 250, 3)>>
    /\ call.posts_map = PostsMap(Some(Batch(1)), Some(Batch(1)))
    /\ OfRank(3) = <<SurgeAlert("c1")>>
    /\ Len(OfRank(1)) = 2

\* C24: when the classifier is not there or fails while being invoked on an
\* item, check_sentiment_alerts and run_all_checks return normally, with no
\* sentiment alert and, for run_all_checks, with the trend and performance
\* alerts of the cycle; the failure never reaches the caller.
C24_ClassifierFailureContained ==
    ((IsCycle \/ call.op = "check_sentiment_alerts") /\ ClassifierFailed) =>
        /\ ~collaborator.raised
        /\ OfRank(3) = <<>>
        /\ IsCycle => alerts = TrackersAlone.alerts

\* -------------------------------------- vocabulary of the concurrency claim
\* the alerts of a type in a returned list
OfType(list, type) == SelectSeq(list, LAMBDA a : a.type = type)

====
